---- MODULE Spec2Model ----
(***************************************************************************)
(* A model of zkregex_fuzzer: the differential harness (harness.py) and    *)
(* the bounded-retry input generators (vinpgen.py, invinpgen.py).          *)
(*                                                                         *)
(* Several state machines share the module.  Spec runs one call of         *)
(* harness(); SpecGen runs one call of generate_many() on a generator      *)
(* instance; SpecRuntime runs one call of harness_runtime() (fuzzer.py),   *)
(* with the harness steps of Spec inside it.  The variables of a machine   *)
(* that is not running keep their idle values.                             *)
(***************************************************************************)
EXTENDS Integers, Sequences, FiniteSets, TLC

VARIABLES
    \* ---- harness(regex, primary_runner_cls, secondary_runner_cls, inputs, oracle, kwargs)
    h_pc,            \* position in harness()
    inputs,          \* the inputs argument
    oracle,          \* the oracle argument
    status_to_save,  \* kwargs["save"]
    idx,             \* position of the for loop over inputs (1-based)
    failed_inputs,   \* the local list failed_inputs
    primary_str,     \* the local primary_runner_str of the current iteration
    primary_log,     \* every call of primary_runner.match, in order, with its outcome
    secondary_log,   \* every call of secondary_runner.match, in order, with its outcome
    secondary_compile, \* outcome of secondary_runner_cls(regex, kwargs)
    runner_events,   \* save()/clean() calls made on the secondary runner
    saved,           \* metadata.json files written
    result,          \* the HarnessResult returned
    \* ---- ValidInputGenerator / InvalidInputGenerator
    g_pc,            \* position in generate_many() / _generate()
    kind,            \* "valid" or "invalid": which class runs
    regex,           \* self.regex
    n,               \* generate_many's n
    max_input_size,  \* generate_many's max_input_size
    string_counts,   \* self._string_counts
    valid_inputs,    \* generate_many's list (valid_inputs / invalid_inputs)
    gm_attempts,     \* generate_many's attempts
    gm_consecutive_failures, \* generate_many's consecutive_failures
    gm_calls,        \* how many times generate_many has called self._generate()
    oracle_failures, \* candidates that failed the check in the _generate call under way
    all_returned,    \* the lists generate_many has returned on this instance, joined
    attempts,        \* _generate's attempts
    consecutive_failures,    \* _generate's consecutive_failures
    generated,       \* what _generate handed to generate_many
    returned,        \* what generate_many returned
    gen_cls,         \* the generator class: "predefined" for PredefinedGenerator
    predefined_inputs, \* kwargs["predefined_inputs"]
    predefined_next, \* position of the iterator self.predefined_inputs (1-based)
    \* ---- harness_runtime(regex, target_runner, oracle_params, inputs_num, ...)
    r_pc,            \* position in harness_runtime()
    oracle_params,   \* the oracle of each (oracle, oracle_generator) pair, in order
    spec_idx,        \* position of the for loop over oracle_params (1-based)
    inputs_num,      \* the inputs_num argument
    regex_inputs,    \* the local regex_inputs
    all_regex_inputs, \* the local all_regex_inputs
    all_results,     \* the local all_results
    r_exc,           \* the exception that left harness_runtime, if any
    r_trace,         \* the stages run so far, in order
    \* ---- fuzz_with_regexes(regexes, inputs_num, target_runner, oracle_params, kwargs)
    f_pc,            \* position in fuzz_with_regexes()
    num_regexes,     \* len(regexes); pattern i is regexes[i]
    n_process,       \* kwargs["process_num"]
    f_idx,           \* position of the serial for loop over regexes (1-based)
    futures,         \* state of the future of each pattern (parallel path)
    yielded,         \* futures that as_completed has handed out
    results,         \* the local list results
    f_outcome,       \* how harness_runtime ended for each pattern
    \* ---- timeout_decorator(seconds, error_message)(func)()
    t_pc,            \* position in wrapper()
    seconds,         \* the seconds argument
    now,             \* time.time()
    t_start,         \* time at thread.start()
    t_join,          \* time at which thread.join(seconds) gave up
    procs,           \* the descendant processes of the parent
    children,        \* the part of parent.children(recursive=True) not yet visited
    t_kill,          \* what the loop did on each child
    t_checked,       \* time.time() when the loop tested each child
    t_out,           \* what wrapper() returned or raised
    \* ---- a Runner instance after its constructor (runner/python.py, runner/circom.py)
    runner_cls,      \* the class of the runner
    run_the_prover,  \* self._run_the_prover
    input_path,      \* whether self._input_path names a file
    fs,              \* the files and directories on disk
    c_calls,         \* the calls made on the runner, in order, with their outcome
    \* ---- dfa_string_matching(regex) and NFAInvalidGenerator.generate_unsafe()
    nfa,             \* the automaton NFA.from_regex built
    w_pc,            \* position in the function, or how it ended
    attempt,         \* the for loop over range(max_attempts) (1-based)
    steps,           \* iterations of the walk so far (max_length / max_cycle)
    current_states,  \* current_states, or {current_state}
    w_result,        \* the local result / invalid_input
    \* ---- generate_random_dfa(max_depth, use_unicode, single_final_state) and
    \* ---- the normalization of a DFA to a single final state
    dfa,             \* the DFA under construction, or the DFA to normalize
    d_pc,            \* position in the function, or how it ended
    max_depth,       \* the max_depth argument
    single_final_state, \* the single_final_state argument
    strategy,        \* the strategy argument of the normalization
    d_out,           \* the DFA returned
    \* ---- timeout_decorator around harness()
    abandoned,       \* wrapper() raised TimeoutError and left the thread running
    \* ---- regex_to_grammar(regex) and handle_max_repeat
    x_pc,            \* position in regex_to_grammar() / handle_max_repeat()
    parsed_pattern,  \* list(sre_parse.parse(regex)): the token list of the pattern
    min_count,       \* handle_max_repeat's min_count
    max_count,       \* handle_max_repeat's max_count
    grammar,         \* the grammar dict: rule name -> list of expansions
    handed_out,      \* every name new_rule_name has returned, in order
    overwritten      \* the rule names assigned to when they already had a rule

hvars == <<h_pc, inputs, oracle, status_to_save, idx, failed_inputs, primary_str,
           primary_log, secondary_log, secondary_compile, runner_events, saved, result>>
gvars == <<g_pc, kind, regex, n, max_input_size, string_counts, valid_inputs,
           gm_attempts, gm_consecutive_failures, attempts, consecutive_failures,
           generated, returned, gen_cls, predefined_inputs, predefined_next,
           gm_calls, oracle_failures, all_returned>>
rvars == <<r_pc, oracle_params, spec_idx, inputs_num, regex_inputs,
           all_regex_inputs, all_results, r_exc, r_trace>>
fvars == <<f_pc, num_regexes, n_process, f_idx, futures, yielded, results, f_outcome>>
tvars == <<t_pc, seconds, now, t_start, t_join, procs, children, t_kill,
           t_checked, t_out>>
cvars == <<runner_cls, run_the_prover, input_path, fs, c_calls>>
\* The machines added after the timeout decorator.
wvars == <<nfa, w_pc, attempt, steps, current_states, w_result>>
dvars == <<dfa, d_pc, max_depth, single_final_state, strategy, d_out>>
xvars == <<x_pc, parsed_pattern, min_count, max_count, grammar, handed_out,
           overwritten>>
evars == <<cvars, wvars, dvars, abandoned, xvars>>
vars == <<hvars, gvars, rvars, fvars, tvars, evars>>

\* What a step of harness(), of a generator, of harness_runtime, of
\* fuzz_with_regexes and of timeout_decorator leave alone.
NotHarness == <<gvars, rvars, fvars, tvars, evars>>
NotGen == <<hvars, rvars, fvars, tvars, evars>>
NotRuntime == <<gvars, fvars, tvars, evars>>
NotFuzz == <<hvars, gvars, rvars, tvars, evars>>
NotTimeout == <<hvars, gvars, rvars, fvars, evars>>
BaseVars == <<hvars, gvars, rvars, fvars, tvars>>
NotClean == <<BaseVars, wvars, dvars, abandoned, xvars>>
NotWalk == <<BaseVars, cvars, dvars, abandoned, xvars>>
NotDfa == <<BaseVars, cvars, wvars, abandoned, xvars>>
NotGrammar == <<BaseVars, cvars, wvars, dvars, abandoned>>


(***************************************************************************)
(* Bounds of the model.                                                    *)
(***************************************************************************)
MaxInputs == 2
InputValues == {"a", "b"}
Substrs == {"", "s"}

\* generate_many(n, max_input_size) is called with n in 1..MaxN and
\* max_input_size in 0..MaxInputSize.
MaxN == 2
MaxInputSize == 2

\* harness_runtime is called with inputs_num in 1..MaxInputsNum.
MaxInputsNum == 2

\* fuzz_with_regexes is called with 1..MaxRegexes patterns and process_num in
\* 1..MaxProcesses.
MaxRegexes == 2
MaxProcesses == 2

\* timeout_decorator is called with seconds in 1..MaxSeconds; at most
\* MaxChildren descendant processes exist, and the clock is followed for
\* MaxDelay seconds after the deadline.
MaxSeconds == 1
MaxChildren == 2
MaxDelay == 1

\* self._max_attempts.  The source sets 20 (vinpgen.py:56; 50 in MixedGenerator);
\* the model runs the loops with this smaller budget.
MaxAttempts == 4
\* Length of the list given to a PredefinedGenerator.
MaxPredefined == 2

\* self._max_repeats and self._max_consecutive_failures.
max_repeats == 3
max_consecutive_failures == 3

\* What generate_unsafe can hand back: strings over {a, b}.
Candidates ==
    {<<>>, <<"a", "b">>, <<"b", "a">>, <<"a", "b", "b">>}

\* A pattern is the set of words it matches plus its anchors:
\* "ab", "^ab$" and "a*" (which matches the empty word everywhere).
Regexes ==
    {[words |-> {<<"a", "b">>}, start |-> FALSE, end |-> FALSE],
     [words |-> {<<"a", "b">>}, start |-> TRUE, end |-> TRUE],
     [words |-> {<<>>, <<"a">>, <<"a", "a">>}, start |-> FALSE, end |-> FALSE]}

\* Sequences over S of length at most k.
RECURSIVE SeqsUpTo(_, _)
SeqsUpTo(S, k) ==
    IF k = 0 THEN {<<>>}
    ELSE LET shorter == SeqsUpTo(S, k - 1)
         IN shorter \cup {Append(s, x) : s \in {t \in shorter : Len(t) = k - 1}, x \in S}

(***************************************************************************)
(* HarnessStatus and HarnessResult (harness.py).                           *)
(***************************************************************************)
HarnessStatus == {"SUCCESS", "INVALID_SEED", "COMPILE_ERROR", "RUN_ERROR", "FAILED"}

HarnessResult(inp_num, orc, failed, status) ==
    [inp_num |-> inp_num, oracle |-> orc, failed_inputs |-> failed, status |-> status]

\* No HarnessResult has been returned yet.
NoResult == HarnessResult(0, FALSE, <<>>, "NONE")

\* Choices of kwargs["save"].
SaveChoices == {{}, {"FAILED", "RUN_ERROR", "COMPILE_ERROR"}, HarnessStatus}

\* Runner.match: (status, str) or RegexRunError.
MatchOutcomes ==
    [raised : {FALSE}, status : BOOLEAN, str : Substrs]
        \cup {[raised |-> TRUE, status |-> FALSE, str |-> ""]}

LogEntry(input, out) ==
    [input |-> input, raised |-> out.raised, status |-> out.status, str |-> out.str]

\* The metadata.json of a result (harness.py:52-57).
Metadata(res) ==
    [config |-> "kwargs", regex |-> "regex", inputs |-> res.failed_inputs,
     status |-> res.status]

\* A bug: every result is saved, whatever the save list says.
ReturnHarnessResult_SaveAlways(res, runner) ==
    /\ saved' = Append(saved, Metadata(res))
    /\ runner_events' = runner_events
           \o (IF runner THEN <<"save", "clean">> ELSE <<>>)
    /\ result' = res
    /\ h_pc' = "done"

\* _return_harness_result(result, status_to_save, output_path, runner, kwargs):
\* runner is TRUE when the secondary runner is passed, FALSE when None is.
ReturnHarnessResult(res, runner) ==
    /\ saved' = IF res.status \in status_to_save
                THEN Append(saved, Metadata(res))
                ELSE saved
    /\ runner_events' = runner_events
           \o (IF res.status \in status_to_save /\ runner THEN <<"save">> ELSE <<>>)
           \o (IF runner THEN <<"clean">> ELSE <<>>)
    /\ result' = res
    /\ h_pc' = "done"

\* primary_runner = primary_runner_cls(regex, {})
CompilePrimary ==
    /\ h_pc = "compile_primary"
    /\ \E ok \in BOOLEAN :
         IF ok
         THEN /\ h_pc' = "compile_secondary"
              /\ UNCHANGED <<runner_events, saved, result>>
         ELSE ReturnHarnessResult(
                  HarnessResult(Len(inputs), oracle, <<>>, "INVALID_SEED"), FALSE)
    /\ UNCHANGED <<inputs, oracle, status_to_save, idx, failed_inputs, primary_str,
                   primary_log, secondary_log, secondary_compile>>
    /\ UNCHANGED NotHarness

\* A bug: the RegexCompileError of the secondary runner is swallowed.
CompileSecondary_Swallow ==
    /\ h_pc = "compile_secondary"
    /\ \E ok \in BOOLEAN :
         /\ secondary_compile' = IF ok THEN "ok" ELSE "error"
         /\ h_pc' = "loop"
         /\ failed_inputs' = <<>>
         /\ UNCHANGED <<runner_events, saved, result>>
    /\ UNCHANGED <<inputs, oracle, status_to_save, idx, primary_str,
                   primary_log, secondary_log>>
    /\ UNCHANGED NotHarness

\* secondary_runner = secondary_runner_cls(regex, kwargs); failed_inputs = []
CompileSecondary ==
    /\ h_pc = "compile_secondary"
    /\ \E ok \in BOOLEAN :
         /\ secondary_compile' = IF ok THEN "ok" ELSE "error"
         /\ IF ok
            THEN /\ h_pc' = "loop"
                 /\ failed_inputs' = <<>>
                 /\ UNCHANGED <<runner_events, saved, result>>
            ELSE /\ ReturnHarnessResult(
                        HarnessResult(Len(inputs), oracle, <<>>, "COMPILE_ERROR"), FALSE)
                 /\ UNCHANGED failed_inputs
    /\ UNCHANGED <<inputs, oracle, status_to_save, idx, primary_str,
                   primary_log, secondary_log>>
    /\ UNCHANGED NotHarness

\* A bug: a reference verdict that differs from the oracle does not return.
MatchPrimary_NoReturn ==
    /\ h_pc = "loop"
    /\ idx <= Len(inputs)
    /\ \E out \in MatchOutcomes :
         /\ primary_log' = Append(primary_log, LogEntry(inputs[idx], out))
         /\ IF out.raised
            THEN /\ ReturnHarnessResult(
                        HarnessResult(Len(inputs), oracle, <<>>, "INVALID_SEED"), FALSE)
                 /\ UNCHANGED primary_str
            ELSE /\ primary_str' = out.str
                 /\ h_pc' = "match_secondary"
                 /\ UNCHANGED <<runner_events, saved, result>>
    /\ UNCHANGED <<inputs, oracle, status_to_save, idx, failed_inputs,
                   secondary_log, secondary_compile>>
    /\ UNCHANGED NotHarness

\* for input in inputs: primary_runner.match(input), lines 131-153
MatchPrimary ==
    /\ h_pc = "loop"
    /\ idx <= Len(inputs)
    /\ \E out \in MatchOutcomes :
         /\ primary_log' = Append(primary_log, LogEntry(inputs[idx], out))
         /\ IF out.raised \/ out.status # oracle
            THEN /\ ReturnHarnessResult(
                        HarnessResult(Len(inputs), oracle, <<>>, "INVALID_SEED"), FALSE)
                 /\ UNCHANGED primary_str
            ELSE /\ primary_str' = out.str
                 /\ h_pc' = "match_secondary"
                 /\ UNCHANGED <<runner_events, saved, result>>
    /\ UNCHANGED <<inputs, oracle, status_to_save, idx, failed_inputs,
                   secondary_log, secondary_compile>>
    /\ UNCHANGED NotHarness

\* A bug: the verdict test of the secondary runner is inverted.
SecondaryMismatch_Inverted(status) == status = oracle

\* if secondary_runner_status != oracle (line 158)
SecondaryMismatch(status) == status # oracle

\* A bug: the RegexRunError of the secondary runner is swallowed and the scan goes on.
MatchSecondary_Swallow ==
    /\ h_pc = "match_secondary"
    /\ \E out \in MatchOutcomes :
         /\ secondary_log' = Append(secondary_log, LogEntry(inputs[idx], out))
         /\ failed_inputs' = IF out.raised \/ SecondaryMismatch(out.status)
                             THEN Append(failed_inputs, inputs[idx])
                             ELSE failed_inputs
         /\ idx' = idx + 1
         /\ h_pc' = "loop"
         /\ UNCHANGED <<runner_events, saved, result>>
    /\ UNCHANGED <<inputs, oracle, status_to_save, primary_str, primary_log,
                   secondary_compile>>
    /\ UNCHANGED NotHarness

\* A bug: the scan stops at the first verdict mismatch of the secondary runner.
MatchSecondary_Break ==
    /\ h_pc = "match_secondary"
    /\ \E out \in MatchOutcomes :
         /\ secondary_log' = Append(secondary_log, LogEntry(inputs[idx], out))
         /\ IF out.raised
            THEN /\ ReturnHarnessResult(
                        HarnessResult(Len(inputs), oracle, <<inputs[idx]>>, "RUN_ERROR"),
                        TRUE)
                 /\ UNCHANGED <<failed_inputs, idx>>
            ELSE /\ failed_inputs' = IF SecondaryMismatch(out.status)
                                     THEN Append(failed_inputs, inputs[idx])
                                     ELSE failed_inputs
                 /\ idx' = IF SecondaryMismatch(out.status) THEN Len(inputs) + 1
                           ELSE idx + 1
                 /\ h_pc' = "loop"
                 /\ UNCHANGED <<runner_events, saved, result>>
    /\ UNCHANGED <<inputs, oracle, status_to_save, primary_str, primary_log,
                   secondary_compile>>
    /\ UNCHANGED NotHarness

\* secondary_runner.match(input), lines 154-173.  The extracted substrings are
\* not compared (lines 161-163 are commented out).
MatchSecondary ==
    /\ h_pc = "match_secondary"
    /\ \E out \in MatchOutcomes :
         /\ secondary_log' = Append(secondary_log, LogEntry(inputs[idx], out))
         /\ IF out.raised
            THEN /\ ReturnHarnessResult(
                        HarnessResult(Len(inputs), oracle, <<inputs[idx]>>, "RUN_ERROR"),
                        TRUE)
                 /\ UNCHANGED <<failed_inputs, idx>>
            ELSE /\ failed_inputs' = IF SecondaryMismatch(out.status)
                                     THEN Append(failed_inputs, inputs[idx])
                                     ELSE failed_inputs
                 /\ idx' = idx + 1
                 /\ h_pc' = "loop"
                 /\ UNCHANGED <<runner_events, saved, result>>
    /\ UNCHANGED <<inputs, oracle, status_to_save, primary_str, primary_log,
                   secondary_compile>>
    /\ UNCHANGED NotHarness

\* After the loop, lines 175-190.
Finish ==
    /\ h_pc = "loop"
    /\ idx > Len(inputs)
    /\ IF Len(failed_inputs) > 0
       THEN ReturnHarnessResult(
                HarnessResult(Len(inputs), oracle, failed_inputs, "FAILED"), TRUE)
       ELSE ReturnHarnessResult(
                HarnessResult(Len(inputs), oracle, inputs, "SUCCESS"), TRUE)
    /\ UNCHANGED <<inputs, oracle, status_to_save, idx, failed_inputs, primary_str,
                   primary_log, secondary_log, secondary_compile>>
    /\ UNCHANGED NotHarness

\* harness_runtime at rest.
RuntimeIdle ==
    /\ r_pc = "idle"
    /\ oracle_params = <<>>
    /\ spec_idx = 1
    /\ inputs_num = 0
    /\ regex_inputs = <<>>
    /\ all_regex_inputs = <<>>
    /\ all_results = <<>>
    /\ r_exc = "none"
    /\ r_trace = <<>>

\* The generator machine at rest.
FuzzIdle ==
    /\ f_pc = "idle"
    /\ num_regexes = 0
    /\ n_process = 1
    /\ f_idx = 1
    /\ futures = <<>>
    /\ yielded = {}
    /\ results = <<>>
    /\ f_outcome = <<>>

TimeoutIdle ==
    /\ t_pc = "idle"
    /\ seconds = 1
    /\ now = 0
    /\ t_start = 0
    /\ t_join = 0
    /\ procs = <<>>
    /\ children = {}
    /\ t_kill = <<>>
    /\ t_checked = <<>>
    /\ t_out = "none"

\* The machines that a specification does not run.
\* No runner is under observation.
CleanIdle ==
    /\ runner_cls = "none"
    /\ run_the_prover = FALSE
    /\ input_path = FALSE
    /\ fs = {}
    /\ c_calls = <<>>

\* No automaton walk is running.
WalkIdle ==
    /\ nfa = [transitions |-> {}, final_states |-> {}]
    /\ w_pc = "idle"
    /\ attempt = 0
    /\ steps = 0
    /\ current_states = {}
    /\ w_result = <<>>

\* No DFA is being built or normalized.
DfaIdle ==
    /\ dfa = [states |-> {}, transitions |-> {}, final_states |-> {}]
    /\ d_pc = "idle"
    /\ max_depth = 0
    /\ single_final_state = FALSE
    /\ strategy = "none"
    /\ d_out = [states |-> {}, transitions |-> {}, final_states |-> {}]

\* No thread has been left behind by timeout_decorator.
AbandonIdle == abandoned = FALSE

\* regex_to_grammar not called.
GrammarIdle ==
    /\ x_pc = "idle"
    /\ parsed_pattern = <<>>
    /\ min_count = 0
    /\ max_count = 0
    /\ grammar = <<>>
    /\ handed_out = <<>>
    /\ overwritten = {}

\* The machines added after the timeout decorator, at rest.
LaterIdle == CleanIdle /\ WalkIdle /\ DfaIdle /\ AbandonIdle /\ GrammarIdle

OthersIdle == FuzzIdle /\ TimeoutIdle /\ LaterIdle

GenIdle ==
    /\ g_pc = "idle"
    /\ kind = "valid"
    /\ regex = [words |-> {}, start |-> FALSE, end |-> FALSE]
    /\ n = 0
    /\ max_input_size = 0
    /\ string_counts = <<>>
    /\ valid_inputs = <<>>
    /\ gm_attempts = 0
    /\ gm_consecutive_failures = 0
    /\ gm_calls = 0
    /\ oracle_failures = 0
    /\ all_returned = <<>>
    /\ attempts = 0
    /\ consecutive_failures = 0
    /\ generated = [exc |-> "none", string |-> <<>>]
    /\ returned = <<>>
    /\ gen_cls = "unsafe"
    /\ predefined_inputs = <<>>
    /\ predefined_next = 1

\* The harness machine at rest.
HarnessIdle ==
    /\ h_pc = "idle"
    /\ inputs = <<>>
    /\ oracle = FALSE
    /\ status_to_save = {}
    /\ idx = 1
    /\ failed_inputs = <<>>
    /\ primary_str = ""
    /\ primary_log = <<>>
    /\ secondary_log = <<>>
    /\ secondary_compile = "none"
    /\ runner_events = <<>>
    /\ saved = <<>>
    /\ result = NoResult

\* The entry of harness(): any input list, oracle and save list.
Init ==
    /\ h_pc = "compile_primary"
    /\ inputs \in SeqsUpTo(InputValues, MaxInputs)
    /\ oracle \in BOOLEAN
    /\ status_to_save \in SaveChoices
    /\ idx = 1
    /\ failed_inputs = <<>>
    /\ primary_str = ""
    /\ primary_log = <<>>
    /\ secondary_log = <<>>
    /\ secondary_compile = "none"
    /\ runner_events = <<>>
    /\ saved = <<>>
    /\ result = NoResult
    /\ GenIdle
    /\ RuntimeIdle
    /\ OthersIdle

Next ==
    \/ CompilePrimary
    \/ CompileSecondary
    \/ MatchPrimary
    \/ MatchSecondary
    \/ Finish

Spec == Init /\ [][Next]_vars

(***************************************************************************)
(* ValidInputGenerator and InvalidInputGenerator (vinpgen.py, invinpgen.py)*)
(***************************************************************************)
\* re.findall(regex, string): the matches of the pattern anywhere in the
\* string, as (start, end) offsets.
FindAll(rx, string) ==
    {<<i, j>> \in (0..Len(string)) \X (0..Len(string)) :
        /\ i <= j
        /\ SubSeq(string, i + 1, j) \in rx.words
        /\ rx.start => i = 0
        /\ rx.end => j = Len(string)}

\* utils.check_if_string_is_valid: len(re.findall(regex, string)) > 0.  The
\* patterns of Regexes compile, so the re.error branch is not taken.
check_if_string_is_valid(rx, string) == FindAll(rx, string) # {}

\* What _generate hands to generate_many: a string, or one of its exceptions.
Returned(string) == [exc |-> "none", string |-> string]
Raised(exc) == [exc |-> exc, string |-> <<>>]

\* What generate_unsafe hands back: a string, None, or an exception of its own.
UnsafeOutcomes ==
    {[tag |-> "str", string |-> c] : c \in Candidates}
        \cup {[tag |-> "None", string |-> <<>>], [tag |-> "error", string |-> <<>>]}

\* PredefinedGenerator.generate_unsafe (vinpgen.py:282-286, invinpgen.py:
\* 543-547): next(self.predefined_inputs), None once the iterator is exhausted.
PredefinedOutcomes ==
    IF predefined_next <= Len(predefined_inputs)
    THEN {[tag |-> "str", string |-> predefined_inputs[predefined_next]]}
    ELSE {[tag |-> "None", string |-> <<>>]}

\* self.generate_unsafe(), dispatched on the class of the generator.
generate_unsafe ==
    IF gen_cls = "predefined" THEN PredefinedOutcomes ELSE UnsafeOutcomes

\* The iterator after one call of generate_unsafe: next() consumes an item.
IteratorAfterCall ==
    IF gen_cls = "predefined" /\ predefined_next <= Len(predefined_inputs)
    THEN predefined_next + 1
    ELSE predefined_next

\* A bug: the generated string is returned without the check.
Accepts_Unchecked(string) == TRUE

\* The test that lets _generate return a string: check_if_string_is_valid for
\* a valid generator (vinpgen.py:105), its negation for an invalid one
\* (invinpgen.py:62).
Accepts(string) ==
    IF kind = "valid"
    THEN check_if_string_is_valid(regex, string)
    ELSE ~check_if_string_is_valid(regex, string)

\* A bug: the size constraint is not applied.
ExceedsMaxSize_Never(string) == FALSE

\* if max_input_size and len(generated) > max_input_size
ExceedsMaxSize(string) == max_input_size # 0 /\ Len(string) > max_input_size

\* A bug: a partial result is treated like an empty one.
NothingGenerated_Partial == Len(valid_inputs) < n

\* if len(valid_inputs) == 0
NothingGenerated == Len(valid_inputs) = 0

\* A bug: the ceiling is passed, not reached, before the loop gives up.
TooManyFailures_Late(failures) == failures > max_consecutive_failures

\* if consecutive_failures >= self._max_consecutive_failures (vinpgen.py:76,
\* invinpgen.py:66)
TooManyFailures(failures) == failures >= max_consecutive_failures

\* A bug: a string seen before is treated as new.
AlreadyAdded_Never(string) == FALSE

\* if self._string_counts[string] > 0 (vinpgen.py:95, invinpgen.py:56)
AlreadyAdded(string) == string_counts[string] > 0

\* _generate ends and control is back in generate_many.
EndGenerate(outcome) ==
    /\ generated' = outcome
    /\ g_pc' = "handle"

\* The while test of generate_many; when it holds, _generate is entered.
GenerateManyLoop ==
    /\ g_pc = "generate_many"
    /\ IF Len(valid_inputs) < n /\ gm_attempts < n + MaxAttempts
       THEN \* generated = self._generate()
            /\ g_pc' = "generate"
            /\ gm_calls' = gm_calls + 1
            /\ attempts' = 0
            /\ consecutive_failures' = 0
            /\ oracle_failures' = 0
       ELSE /\ g_pc' = "exit"
            /\ UNCHANGED <<gm_calls, attempts, consecutive_failures,
                           oracle_failures>>
    /\ UNCHANGED <<kind, regex, n, max_input_size, string_counts, valid_inputs,
                   gm_attempts, gm_consecutive_failures, generated, returned,
                   gen_cls, predefined_inputs, predefined_next, all_returned>>
    /\ UNCHANGED NotGen

\* One iteration of the while loop of ValidInputGenerator._generate.
GenerateValid ==
    /\ g_pc = "generate"
    /\ kind = "valid"
    /\ IF attempts >= MaxAttempts
       THEN /\ EndGenerate(Raised("MaxAttemptsExceeded"))
            /\ UNCHANGED <<attempts, consecutive_failures, string_counts,
                           predefined_next, oracle_failures>>
       ELSE \E u \in generate_unsafe :
              /\ predefined_next' = IteratorAfterCall
              /\ attempts' = attempts + 1
              /\ CASE u.tag = "error" ->
                        /\ EndGenerate(Raised("Exception"))
                        /\ UNCHANGED <<consecutive_failures, string_counts,
                                       oracle_failures>>
                   [] u.tag = "None" ->
                        /\ consecutive_failures' = consecutive_failures + 1
                        /\ IF TooManyFailures(consecutive_failures + 1)
                           THEN EndGenerate(Raised("MaxConsecutiveFailuresExceeded"))
                           ELSE UNCHANGED <<generated, g_pc>>
                        /\ UNCHANGED <<string_counts, oracle_failures>>
                   [] u.tag = "str" ->
                        /\ consecutive_failures' = 0
                        /\ IF string_counts[u.string] >= max_repeats
                           THEN /\ EndGenerate(
                                       Raised("MaxStringGenerationAttemptsExceeded"))
                                /\ UNCHANGED <<string_counts, oracle_failures>>
                           ELSE /\ string_counts' =
                                       [string_counts EXCEPT ![u.string] = @ + 1]
                                /\ IF ~AlreadyAdded(u.string) /\ Len(u.string) > 1
                                   THEN IF Accepts(u.string)
                                        THEN /\ EndGenerate(Returned(u.string))
                                             /\ UNCHANGED oracle_failures
                                        ELSE \* the while loop goes round again
                                             /\ oracle_failures' = oracle_failures + 1
                                             /\ UNCHANGED <<generated, g_pc>>
                                   ELSE UNCHANGED <<generated, g_pc, oracle_failures>>
    /\ UNCHANGED <<kind, regex, n, max_input_size, valid_inputs, gm_attempts,
                   gm_consecutive_failures, returned, gen_cls, predefined_inputs,
                   gm_calls, all_returned>>
    /\ UNCHANGED NotGen

\* One iteration of the while loop of InvalidInputGenerator._generate.
GenerateInvalid ==
    /\ g_pc = "generate"
    /\ kind = "invalid"
    /\ IF attempts >= MaxAttempts
       THEN /\ EndGenerate(Raised("MaxAttemptsExceeded"))
            /\ UNCHANGED <<attempts, consecutive_failures, string_counts,
                           predefined_next, oracle_failures>>
       ELSE \E u \in generate_unsafe :
              /\ predefined_next' = IteratorAfterCall
              /\ attempts' = attempts + 1
              /\ IF u.tag = "error"
                 THEN /\ EndGenerate(Raised("Exception"))
                      /\ UNCHANGED <<consecutive_failures, string_counts,
                                     oracle_failures>>
                 ELSE \* string = self.generate_unsafe() or ""
                      LET string == u.string IN
                      IF string_counts[string] >= max_repeats
                      THEN /\ EndGenerate(Raised("MaxStringGenerationAttemptsExceeded"))
                           /\ UNCHANGED <<consecutive_failures, string_counts,
                                          oracle_failures>>
                      ELSE /\ string_counts' = [string_counts EXCEPT ![string] = @ + 1]
                           /\ IF AlreadyAdded(string)
                              THEN UNCHANGED <<consecutive_failures, generated, g_pc,
                                               oracle_failures>>
                              ELSE IF Accepts(string)
                              THEN /\ EndGenerate(Returned(string))
                                   /\ UNCHANGED <<consecutive_failures, oracle_failures>>
                              ELSE /\ consecutive_failures' = consecutive_failures + 1
                                   /\ oracle_failures' = oracle_failures + 1
                                   /\ IF TooManyFailures(consecutive_failures + 1)
                                      THEN EndGenerate(
                                               Raised("MaxConsecutiveFailuresExceeded"))
                                      ELSE UNCHANGED <<generated, g_pc>>
    /\ UNCHANGED <<kind, regex, n, max_input_size, valid_inputs, gm_attempts,
                   gm_consecutive_failures, returned, gen_cls, predefined_inputs,
                   gm_calls, all_returned>>
    /\ UNCHANGED NotGen

\* The body of the while loop of generate_many after _generate: the size
\* constraint, the append, and the except clauses.
GenerateManyHandle ==
    /\ g_pc = "handle"
    /\ oracle_failures' = 0
    /\ CASE generated.exc = "none" ->
              IF ExceedsMaxSize(generated.string)
              THEN \* continue
                   /\ g_pc' = "generate_many"
                   /\ UNCHANGED <<valid_inputs, gm_attempts, gm_consecutive_failures>>
              ELSE /\ valid_inputs' = Append(valid_inputs, generated.string)
                   /\ gm_consecutive_failures' = 0
                   /\ gm_attempts' = gm_attempts + 1
                   /\ g_pc' = "generate_many"
         [] generated.exc \in {"MaxConsecutiveFailuresExceeded", "MaxAttemptsExceeded"} ->
              /\ gm_consecutive_failures' = gm_consecutive_failures + 1
              /\ IF gm_consecutive_failures + 1 >= max_consecutive_failures
                 THEN \* break
                      /\ g_pc' = "exit"
                      /\ UNCHANGED gm_attempts
                 ELSE /\ gm_attempts' = gm_attempts + 1
                      /\ g_pc' = "generate_many"
              /\ UNCHANGED valid_inputs
         [] generated.exc = "MaxStringGenerationAttemptsExceeded" ->
              \* break
              /\ g_pc' = "exit"
              /\ UNCHANGED <<valid_inputs, gm_attempts, gm_consecutive_failures>>
         [] generated.exc = "Exception" ->
              \* not caught: it leaves generate_many
              /\ g_pc' = "propagated"
              /\ UNCHANGED <<valid_inputs, gm_attempts, gm_consecutive_failures>>
    /\ UNCHANGED <<kind, regex, n, max_input_size, string_counts, attempts,
                   consecutive_failures, generated, returned,
                   gen_cls, predefined_inputs, predefined_next, gm_calls,
                   all_returned>>
    /\ UNCHANGED NotGen

\* After the while loop of generate_many: raise ValueError or return the list.
GenerateManyExit ==
    /\ g_pc = "exit"
    /\ IF NothingGenerated
       THEN /\ g_pc' = "ValueError"
            /\ UNCHANGED <<returned, all_returned>>
       ELSE /\ g_pc' = "returned"
            /\ returned' = valid_inputs
            /\ all_returned' = all_returned \o valid_inputs
    /\ UNCHANGED <<kind, regex, n, max_input_size, string_counts, valid_inputs,
                   gm_attempts, gm_consecutive_failures, attempts,
                   consecutive_failures, generated,
                   gen_cls, predefined_inputs, predefined_next, gm_calls,
                   oracle_failures>>
    /\ UNCHANGED NotGen

\* A fresh generator instance at the entry of generate_many(n, max_input_size).
InitGen ==
    /\ g_pc = "generate_many"
    /\ kind \in {"valid", "invalid"}
    /\ regex \in Regexes
    /\ n \in 1..MaxN
    /\ max_input_size \in 0..MaxInputSize
    /\ string_counts = [c \in Candidates |-> 0]
    /\ valid_inputs = <<>>
    /\ gm_attempts = 0
    /\ gm_consecutive_failures = 0
    /\ gm_calls = 0
    /\ oracle_failures = 0
    /\ all_returned = <<>>
    /\ attempts = 0
    /\ consecutive_failures = 0
    /\ generated = Returned(<<>>)
    /\ returned = <<>>
    /\ gen_cls = "unsafe"
    /\ predefined_inputs = <<>>
    /\ predefined_next = 1
    /\ HarnessIdle
    /\ RuntimeIdle
    /\ OthersIdle

NextGen ==
    \/ GenerateManyLoop
    \/ GenerateValid
    \/ GenerateInvalid
    \/ GenerateManyHandle
    \/ GenerateManyExit

SpecGen == InitGen /\ [][NextGen]_vars

\* Patterns for the retry loop of _generate: "a*", which every candidate
\* matches, and "bab", which no candidate matches.
RetryRegexes ==
    {[words |-> {<<>>, <<"a">>, <<"a", "a">>}, start |-> FALSE, end |-> FALSE],
     [words |-> {<<"b", "a", "b">>}, start |-> FALSE, end |-> FALSE]}

\* A fresh generator at the entry of generate_many(n, max_input_size), for a
\* pattern on which every candidate passes the oracle check or every one fails.
InitRetry ==
    /\ g_pc = "generate_many"
    /\ kind \in {"valid", "invalid"}
    /\ regex \in RetryRegexes
    /\ n \in 1..MaxN
    /\ max_input_size \in {0, MaxInputSize}
    /\ string_counts = [c \in Candidates |-> 0]
    /\ valid_inputs = <<>>
    /\ gm_attempts = 0
    /\ gm_consecutive_failures = 0
    /\ gm_calls = 0
    /\ oracle_failures = 0
    /\ all_returned = <<>>
    /\ attempts = 0
    /\ consecutive_failures = 0
    /\ generated = Returned(<<>>)
    /\ returned = <<>>
    /\ gen_cls = "unsafe"
    /\ predefined_inputs = <<>>
    /\ predefined_next = 1
    /\ HarnessIdle
    /\ RuntimeIdle
    /\ OthersIdle

SpecRetry == InitRetry /\ [][NextGen]_vars

\* generate_many is called again on the same instance, after it returned or
\* raised: the locals are fresh, self._string_counts is kept.
CallAgain ==
    /\ g_pc \in {"returned", "ValueError"}
    /\ g_pc' = "generate_many"
    /\ n' \in 1..MaxN
    /\ valid_inputs' = <<>>
    /\ gm_attempts' = 0
    /\ gm_consecutive_failures' = 0
    /\ gm_calls' = 0
    /\ returned' = <<>>
    /\ UNCHANGED <<kind, regex, max_input_size, string_counts, attempts,
                   consecutive_failures, generated, gen_cls, predefined_inputs,
                   predefined_next, oracle_failures, all_returned>>
    /\ UNCHANGED NotGen

\* A fresh generator for the pattern "ab" at the entry of its first
\* generate_many call; no size limit.
InitCalls ==
    /\ InitGen
    /\ regex = [words |-> {<<"a", "b">>}, start |-> FALSE, end |-> FALSE]
    /\ max_input_size = 0

NextCalls ==
    \/ NextGen
    \/ CallAgain

SpecCalls == InitCalls /\ [][NextCalls]_vars

\* The strings a caller may put in kwargs["predefined_inputs"].
PredefinedStrings == {<<"a">>, <<"a", "b">>, <<"b", "a", "b">>}

\* A fresh PredefinedGenerator (valid or invalid) at the entry of generate_many.
InitPredefined ==
    /\ g_pc = "generate_many"
    /\ kind \in {"valid", "invalid"}
    /\ regex \in Regexes
    /\ n \in 1..MaxN
    /\ max_input_size \in 0..MaxInputSize
    /\ gen_cls = "predefined"
    /\ predefined_inputs \in SeqsUpTo(PredefinedStrings, MaxPredefined)
    /\ predefined_next = 1
    /\ string_counts = [c \in PredefinedStrings \cup {<<>>} |-> 0]
    /\ valid_inputs = <<>>
    /\ gm_attempts = 0
    /\ gm_consecutive_failures = 0
    /\ gm_calls = 0
    /\ oracle_failures = 0
    /\ all_returned = <<>>
    /\ attempts = 0
    /\ consecutive_failures = 0
    /\ generated = Returned(<<>>)
    /\ returned = <<>>
    /\ HarnessIdle
    /\ RuntimeIdle
    /\ OthersIdle

SpecPredefined == InitPredefined /\ [][NextGen]_vars

(***************************************************************************)
(* harness_runtime (fuzzer.py:364-451), one pattern.  The harness it calls *)
(* is the one of Spec, run step by step; generate_many is taken by its     *)
(* outcome: a list of 1..inputs_num strings, ValueError, a timeout or      *)
(* another exception.                                                      *)
(***************************************************************************)
\* cli.py:299-318: the valid oracle, the invalid one, or both in this order.
OracleParamChoices == {<<TRUE>>, <<FALSE>>, <<TRUE, FALSE>>}

\* HarnessStatus.<name>: the lookup succeeds for a member of the enum and
\* raises AttributeError otherwise.
EnumMember(name) == name \in HarnessStatus

\* What generate_inputs() (fuzzer.py:396-401) can produce.
GenOutcomes(num) ==
    {[tag |-> "list", inputs |-> s] :
        s \in {q \in SeqsUpTo(InputValues, num) :
                  /\ q # <<>>
                  /\ \A i, j \in DOMAIN q : q[i] = q[j] => i = j}}
        \cup {[tag |-> x, inputs |-> <<>>] :
                  x \in {"ValueError", "TimeoutError", "Exception"}}

Event(ev, out) == [spec |-> spec_idx, ev |-> ev, out |-> out]

\* A bug: the loop goes on after a compile error.
BreakOnCompileError_Never(res) == FALSE

\* if result.status == HarnessStatus.COMPILE_ERROR: break (fuzzer.py:447-449)
BreakOnCompileError(res) == res.status = "COMPILE_ERROR"

\* A bug: the loop variable does not advance.
NextOracle_Same(i) == i

\* for oracle, oracle_generator in oracle_params: the next pair
NextOracle(i) == i + 1

\* The head of the for loop (fuzzer.py:382-389) and the return (line 451).
ForOracle ==
    /\ r_pc = "for"
    /\ IF spec_idx <= Len(oracle_params)
       THEN /\ r_pc' = "generate_inputs"
            /\ regex_inputs' = <<>>
       ELSE /\ r_pc' = "returned"
            /\ UNCHANGED regex_inputs
    /\ UNCHANGED <<oracle_params, spec_idx, inputs_num, all_regex_inputs,
                   all_results, r_exc, r_trace>>
    /\ UNCHANGED <<hvars, NotRuntime>>

\* Input generation under its timeout (fuzzer.py:390-417).
GenerateInputs ==
    /\ r_pc = "generate_inputs"
    /\ \E out \in GenOutcomes(inputs_num) :
         /\ r_trace' = Append(r_trace, Event("generate_inputs", out.tag))
         /\ CASE out.tag = "list" ->
                   /\ regex_inputs' = out.inputs
                   /\ r_pc' = "run_harness"
                   /\ UNCHANGED <<spec_idx, all_regex_inputs, all_results, r_exc>>
              [] out.tag = "ValueError" ->
                   \* logger.warning(e); regex_inputs is still []
                   /\ r_pc' = "run_harness"
                   /\ UNCHANGED <<regex_inputs, spec_idx, all_regex_inputs,
                                  all_results, r_exc>>
              [] out.tag = "TimeoutError" ->
                   IF EnumMember("INPUT_GEN_TIMEOUT")
                   THEN /\ all_regex_inputs' = Append(all_regex_inputs, <<>>)
                        /\ all_results' = Append(all_results,
                               HarnessResult(Len(regex_inputs), oracle_params[spec_idx],
                                             regex_inputs, "INPUT_GEN_TIMEOUT"))
                        /\ spec_idx' = NextOracle(spec_idx)
                        /\ r_pc' = "for"
                        /\ UNCHANGED <<regex_inputs, r_exc>>
                   ELSE /\ r_exc' = "AttributeError"
                        /\ r_pc' = "raised"
                        /\ UNCHANGED <<regex_inputs, spec_idx, all_regex_inputs,
                                       all_results>>
              [] out.tag = "Exception" ->
                   /\ r_exc' = "Exception"
                   /\ r_pc' = "raised"
                   /\ UNCHANGED <<regex_inputs, spec_idx, all_regex_inputs,
                                  all_results>>
    /\ UNCHANGED <<oracle_params, inputs_num>>
    /\ UNCHANGED <<hvars, NotRuntime>>

\* run_harness() is started (fuzzer.py:420-430): harness(regex, primary_runner,
\* target_runner, regex_inputs, oracle, kwargs) is entered.
StartHarness ==
    /\ r_pc = "run_harness"
    /\ r_pc' = "harness"
    /\ r_trace' = Append(r_trace, Event("harness", "start"))
    /\ h_pc' = "compile_primary"
    /\ inputs' = regex_inputs
    /\ oracle' = oracle_params[spec_idx]
    /\ idx' = 1
    /\ failed_inputs' = <<>>
    /\ primary_str' = ""
    /\ primary_log' = <<>>
    /\ secondary_log' = <<>>
    /\ secondary_compile' = "none"
    /\ runner_events' = <<>>
    /\ result' = NoResult
    /\ UNCHANGED <<status_to_save, saved>>
    /\ UNCHANGED <<oracle_params, spec_idx, inputs_num, regex_inputs,
                   all_regex_inputs, all_results, r_exc>>
    /\ UNCHANGED NotRuntime

\* harness() has returned (fuzzer.py:430-432, 447-449).
EndHarness ==
    /\ r_pc = "harness"
    /\ h_pc = "done"
    /\ r_trace' = Append(r_trace, Event("harness", result.status))
    /\ all_regex_inputs' = Append(all_regex_inputs, regex_inputs)
    /\ all_results' = Append(all_results, result)
    /\ IF BreakOnCompileError(result)
       THEN /\ r_pc' = "returned"
            /\ UNCHANGED spec_idx
       ELSE /\ r_pc' = "for"
            /\ spec_idx' = NextOracle(spec_idx)
    /\ UNCHANGED <<oracle_params, inputs_num, regex_inputs, r_exc>>
    /\ UNCHANGED <<hvars, NotRuntime>>

\* The harness timeout expires while harness() runs (fuzzer.py:433-449).  What
\* the abandoned thread does afterwards is not followed.
HarnessTimeout ==
    /\ r_pc = "harness"
    /\ h_pc # "done"
    /\ h_pc' = "timed_out"
    /\ r_trace' = Append(r_trace, Event("harness", "TimeoutError"))
    /\ IF EnumMember("HARNESS_TIMEOUT")
       THEN /\ all_regex_inputs' = Append(all_regex_inputs, regex_inputs)
            /\ all_results' = Append(all_results,
                   HarnessResult(Len(regex_inputs), oracle_params[spec_idx],
                                 regex_inputs, "HARNESS_TIMEOUT"))
            /\ spec_idx' = NextOracle(spec_idx)
            /\ r_pc' = "for"
            /\ UNCHANGED r_exc
       ELSE /\ r_exc' = "AttributeError"
            /\ r_pc' = "raised"
            /\ UNCHANGED <<spec_idx, all_regex_inputs, all_results>>
    /\ UNCHANGED <<oracle_params, inputs_num, regex_inputs>>
    /\ UNCHANGED <<inputs, oracle, status_to_save, idx, failed_inputs, primary_str,
                   primary_log, secondary_log, secondary_compile, runner_events,
                   saved, result>>
    /\ UNCHANGED NotRuntime

\* The timeout_decorator around harness_runtime (fuzzer.py:217-229, 336-355)
\* expires: its caller gets TimeoutError and the locals of harness_runtime
\* are out of reach.
RegexTimeout ==
    /\ r_pc \in {"for", "generate_inputs", "run_harness", "harness"}
    /\ r_pc' = "timeout"
    /\ r_exc' = "TimeoutError"
    /\ h_pc' = IF r_pc = "harness" /\ h_pc # "done" THEN "timed_out" ELSE h_pc
    /\ UNCHANGED <<oracle_params, spec_idx, inputs_num, regex_inputs,
                   all_regex_inputs, all_results, r_trace>>
    /\ UNCHANGED <<inputs, oracle, status_to_save, idx, failed_inputs, primary_str,
                   primary_log, secondary_log, secondary_compile, runner_events,
                   saved, result>>
    /\ UNCHANGED NotRuntime

\* The entry of harness_runtime.
InitRuntime ==
    /\ r_pc = "for"
    /\ oracle_params \in OracleParamChoices
    /\ spec_idx = 1
    /\ inputs_num \in 1..MaxInputsNum
    /\ regex_inputs = <<>>
    /\ all_regex_inputs = <<>>
    /\ all_results = <<>>
    /\ r_exc = "none"
    /\ r_trace = <<>>
    /\ h_pc = "idle"
    /\ inputs = <<>>
    /\ oracle = FALSE
    /\ status_to_save \in SaveChoices
    /\ idx = 1
    /\ failed_inputs = <<>>
    /\ primary_str = ""
    /\ primary_log = <<>>
    /\ secondary_log = <<>>
    /\ secondary_compile = "none"
    /\ runner_events = <<>>
    /\ saved = <<>>
    /\ result = NoResult
    /\ GenIdle
    /\ OthersIdle

NextRuntime ==
    \/ ForOracle
    \/ GenerateInputs
    \/ StartHarness
    \/ CompilePrimary
    \/ CompileSecondary
    \/ MatchPrimary
    \/ MatchSecondary
    \/ Finish
    \/ EndHarness
    \/ HarnessTimeout
    \/ RegexTimeout

SpecRuntime == InitRuntime /\ [][NextRuntime]_vars

(***************************************************************************)
(* fuzz_with_regexes (fuzzer.py:245-361).  A call of harness_runtime under *)
(* the per-pattern timeout is taken by its outcome: how it ended and the   *)
(* statuses of the results it had put in all_results by then.  An entry of *)
(* results keeps the pattern and the statuses of its results.              *)
(***************************************************************************)
\* The longest oracle_params that cli.py builds (the combined oracle).
MaxOracleSpecs == 2

NoCompileErrorBefore(q, k) == \A i \in 1..k : q[i] # "COMPILE_ERROR"

\* The ways harness_runtime under timeout_decorator ends (fuzzer.py:217-229,
\* 336-350): it returns all_results, the timeout expires, or an exception
\* leaves it before the result of the current oracle spec is appended.
TaskOutcomes ==
    {[end |-> "returned", results |-> q] :
        q \in {s \in SeqsUpTo(HarnessStatus, MaxOracleSpecs) :
                  s # <<>> /\ NoCompileErrorBefore(s, Len(s) - 1)}}
    \cup {[end |-> "timeout", results |-> q] :
        q \in {s \in SeqsUpTo(HarnessStatus, MaxOracleSpecs) :
                  NoCompileErrorBefore(s, Len(s))}}
    \cup {[end |-> "raised", results |-> q] :
        q \in {s \in SeqsUpTo(HarnessStatus, MaxOracleSpecs - 1) :
                  NoCompileErrorBefore(s, Len(s))}}

NoOutcome == [end |-> "none", results |-> <<>>]

\* A tuple (regex, all_regex_inputs, all_results) of the list results.
Entry(p, res) == [regex |-> p, results |-> res]

\* (regex, [], [])
Placeholder(p) == Entry(p, <<>>)

\* _process_results calls bug_logging on every result; for a status other
\* than SUCCESS it reads result.output_path, which HarnessResult
\* (harness.py:31-41) does not have: AttributeError.
ProcessResultsRaises(res) == \E k \in DOMAIN res : res[k] # "SUCCESS"

\* One iteration of the serial loop (fuzzer.py:332-358).
SerialRegex ==
    /\ f_pc = "serial"
    /\ f_idx <= num_regexes
    /\ \E o \in TaskOutcomes :
         /\ f_outcome' = [f_outcome EXCEPT ![f_idx] = o]
         /\ results' = Append(results,
                IF o.end = "returned" /\ ~ProcessResultsRaises(o.results)
                THEN Entry(f_idx, o.results)
                ELSE Placeholder(f_idx))
    /\ f_idx' = f_idx + 1
    /\ UNCHANGED <<f_pc, num_regexes, n_process, futures, yielded>>
    /\ UNCHANGED NotFuzz

\* The serial loop is over: Stats(results) (fuzzer.py:360).
SerialDone ==
    /\ f_pc = "serial"
    /\ f_idx > num_regexes
    /\ f_pc' = "stats"
    /\ UNCHANGED <<num_regexes, n_process, f_idx, futures, yielded, results, f_outcome>>
    /\ UNCHANGED NotFuzz

\* A worker of the pool takes the next submitted task (fuzzer.py:296-303).
WorkerStart(p) ==
    /\ f_pc = "parallel"
    /\ futures[p] = "pending"
    /\ \A q \in 1..(p - 1) : futures[q] # "pending"
    /\ Cardinality({q \in DOMAIN futures : futures[q] \in {"running", "wedged"}})
           < n_process
    /\ futures' = [futures EXCEPT ![p] = "running"]
    /\ UNCHANGED <<f_pc, num_regexes, n_process, f_idx, yielded, results, f_outcome>>
    /\ UNCHANGED NotFuzz

\* _process_regex_inputs ends in the worker (fuzzer.py:206-229).
WorkerFinish(p) ==
    /\ f_pc = "parallel"
    /\ futures[p] = "running"
    /\ \E o \in TaskOutcomes : f_outcome' = [f_outcome EXCEPT ![p] = o]
    /\ futures' = [futures EXCEPT ![p] = "done"]
    /\ UNCHANGED <<f_pc, num_regexes, n_process, f_idx, yielded, results>>
    /\ UNCHANGED NotFuzz

\* The worker never comes back from a call: thread.join(seconds) of
\* timeout_decorator cannot return while the function thread holds the
\* interpreter lock (a match of the re module).
WorkerWedge(p) ==
    /\ f_pc = "parallel"
    /\ futures[p] = "running"
    /\ futures' = [futures EXCEPT ![p] = "wedged"]
    /\ UNCHANGED <<f_pc, num_regexes, n_process, f_idx, yielded, results, f_outcome>>
    /\ UNCHANGED NotFuzz

\* One iteration of the loop over as_completed (fuzzer.py:306-329): it gets
\* a future only once the future is done, so future.result(timeout=...)
\* returns or raises at once.
AsCompleted(p) ==
    /\ f_pc = "parallel"
    /\ futures[p] = "done"
    /\ p \notin yielded
    /\ yielded' = yielded \cup {p}
    /\ results' = results \o
           (CASE f_outcome[p].end = "returned" ->
                     <<Entry(p, f_outcome[p].results)>>
                         \o (IF ProcessResultsRaises(f_outcome[p].results)
                             THEN <<Placeholder(p)>> ELSE <<>>)
              [] f_outcome[p].end = "timeout" -> <<Placeholder(p)>>
              [] f_outcome[p].end = "raised" -> <<Placeholder(p)>>)
    /\ UNCHANGED <<f_pc, num_regexes, n_process, f_idx, futures, f_outcome>>
    /\ UNCHANGED NotFuzz

\* as_completed is exhausted: Stats(results) (fuzzer.py:360).
ParallelDone ==
    /\ f_pc = "parallel"
    /\ yielded = 1..num_regexes
    /\ f_pc' = "stats"
    /\ UNCHANGED <<num_regexes, n_process, f_idx, futures, yielded, results, f_outcome>>
    /\ UNCHANGED NotFuzz

InitFuzz ==
    /\ num_regexes \in 1..MaxRegexes
    /\ n_process \in 1..MaxProcesses
    /\ f_pc = IF n_process > 1 THEN "parallel" ELSE "serial"
    /\ f_idx = 1
    /\ futures = [p \in 1..num_regexes |-> "pending"]
    /\ yielded = {}
    /\ results = <<>>
    /\ f_outcome = [p \in 1..num_regexes |-> NoOutcome]
    /\ HarnessIdle
    /\ GenIdle
    /\ RuntimeIdle
    /\ TimeoutIdle
    /\ LaterIdle

NextFuzz ==
    \/ SerialRegex
    \/ SerialDone
    \/ \E p \in 1..num_regexes : WorkerStart(p)
    \/ \E p \in 1..num_regexes : WorkerFinish(p)
    \/ \E p \in 1..num_regexes : WorkerWedge(p)
    \/ \E p \in 1..num_regexes : AsCompleted(p)
    \/ ParallelDone

SpecFuzz == InitFuzz /\ [][NextFuzz]_vars

(***************************************************************************)
(* timeout_decorator (fuzzer.py:146-203): one call of wrapper().  Time is  *)
(* counted in seconds.  The function thread is not stopped by the timeout: *)
(* it can start processes until wrapper() is left.                         *)
(***************************************************************************)
Procs == 1..MaxChildren

NoProc == [state |-> "none", ctime |-> 0, denied |-> FALSE]

\* A process started before the call.
OldProc == [state |-> "alive", ctime |-> 0, denied |-> FALSE]

\* A bug: every listed child is killed.
InWindow_Always(ctime, t) == TRUE

\* child.create_time() > time.time() - seconds - 1 (fuzzer.py:183)
InWindow(ctime, t) == ctime > t - seconds - 1

\* The function starts a process (processes are numbered in the order they
\* start); denied says whether the parent may kill it.
Spawn(c) ==
    /\ t_pc \in {"running", "enumerate", "kill_loop", "raise"}
    /\ procs[c].state = "none"
    /\ \A q \in 1..(c - 1) : procs[q].state # "none"
    /\ \E d \in BOOLEAN :
         procs' = [procs EXCEPT ![c] = [state |-> "alive", ctime |-> now, denied |-> d]]
    /\ UNCHANGED <<t_pc, seconds, now, t_start, t_join, children, t_kill,
                   t_checked, t_out>>
    /\ UNCHANGED NotTimeout

\* A process ends by itself.
ChildExit(c) ==
    /\ t_pc \in {"running", "enumerate", "kill_loop", "raise"}
    /\ procs[c].state = "alive"
    /\ procs' = [procs EXCEPT ![c].state = "exited"]
    /\ UNCHANGED <<t_pc, seconds, now, t_start, t_join, children, t_kill,
                   t_checked, t_out>>
    /\ UNCHANGED NotTimeout

\* A second passes.
Tick ==
    /\ t_pc \in {"running", "enumerate", "kill_loop", "raise"}
    /\ now < t_start + seconds + MaxDelay
    /\ now' = now + 1
    /\ UNCHANGED <<t_pc, seconds, t_start, t_join, procs, children, t_kill,
                   t_checked, t_out>>
    /\ UNCHANGED NotTimeout

\* The thread is over when join returns: wrapper() returns the result or
\* raises the exception of func (fuzzer.py:195-199).
FuncEnds ==
    /\ t_pc = "running"
    /\ t_pc' = "done"
    /\ \E r \in {"result", "exception"} : t_out' = r
    /\ UNCHANGED <<seconds, now, t_start, t_join, procs, children, t_kill, t_checked>>
    /\ UNCHANGED NotTimeout

\* thread.join(seconds) gives up and the thread is alive (fuzzer.py:167-171).
JoinTimeout ==
    /\ t_pc = "running"
    /\ now >= t_start + seconds
    /\ t_pc' = "enumerate"
    /\ t_join' = now
    /\ UNCHANGED <<seconds, now, t_start, procs, children, t_kill, t_checked, t_out>>
    /\ UNCHANGED NotTimeout

\* parent.children(recursive=True) (fuzzer.py:174-176); an exception is
\* logged by the outer handler (lines 190-191).
Enumerate ==
    /\ t_pc = "enumerate"
    /\ \E ok \in BOOLEAN :
         IF ok
         THEN /\ children' = {c \in Procs : procs[c].state = "alive"}
              /\ t_kill' = [c \in Procs |->
                               IF procs[c].state = "alive" THEN "listed" ELSE "none"]
              /\ t_pc' = "kill_loop"
         ELSE /\ t_pc' = "raise"
              /\ UNCHANGED <<children, t_kill>>
    /\ UNCHANGED <<seconds, now, t_start, t_join, procs, t_checked, t_out>>
    /\ UNCHANGED NotTimeout

\* One iteration of the loop over children (fuzzer.py:178-189).
KillStep ==
    /\ t_pc = "kill_loop"
    /\ children # {}
    /\ LET c == CHOOSE x \in children : \A y \in children : x <= y IN
         /\ children' = children \ {c}
         /\ t_checked' = [t_checked EXCEPT ![c] = now]
         /\ IF procs[c].state # "alive"
            THEN /\ t_kill' = [t_kill EXCEPT ![c] = "NoSuchProcess"]
                 /\ UNCHANGED procs
            ELSE IF ~InWindow(procs[c].ctime, now)
            THEN /\ t_kill' = [t_kill EXCEPT ![c] = "skipped"]
                 /\ UNCHANGED procs
            ELSE IF procs[c].denied
            THEN /\ t_kill' = [t_kill EXCEPT ![c] = "AccessDenied"]
                 /\ UNCHANGED procs
            ELSE /\ t_kill' = [t_kill EXCEPT ![c] = "killed"]
                 /\ procs' = [procs EXCEPT ![c].state = "killed"]
    /\ UNCHANGED <<t_pc, seconds, now, t_start, t_join, t_out>>
    /\ UNCHANGED NotTimeout

\* raise TimeoutError(error_message) (fuzzer.py:193)
RaiseTimeout ==
    /\ \/ t_pc = "kill_loop" /\ children = {}
       \/ t_pc = "raise"
    /\ t_pc' = "timeout_raised"
    /\ t_out' = "TimeoutError"
    /\ UNCHANGED <<seconds, now, t_start, t_join, procs, children, t_kill, t_checked>>
    /\ UNCHANGED NotTimeout

\* thread.start() (fuzzer.py:162-164)
InitTimeout ==
    /\ t_pc = "running"
    /\ seconds \in 1..MaxSeconds
    /\ t_start = 2
    /\ now = t_start
    /\ t_join = 0
    /\ \E old \in {NoProc, OldProc} :
         procs = [c \in Procs |-> IF c = 1 THEN old ELSE NoProc]
    /\ children = {}
    /\ t_kill = [c \in Procs |-> "none"]
    /\ t_checked = [c \in Procs |-> 0]
    /\ t_out = "none"
    /\ HarnessIdle
    /\ GenIdle
    /\ RuntimeIdle
    /\ FuzzIdle
    /\ LaterIdle

NextTimeout ==
    \/ \E c \in Procs : Spawn(c)
    \/ \E c \in Procs : ChildExit(c)
    \/ Tick
    \/ FuncEnds
    \/ JoinTimeout
    \/ Enumerate
    \/ KillStep
    \/ RaiseTimeout

SpecTimeout == InitTimeout /\ [][NextTimeout]_vars

(***************************************************************************)
(* The life of a Runner after construction (runner/base_runner.py): any    *)
(* sequence of match, save and clean calls.  PythonReRunner keeps nothing  *)
(* on disk; CircomRunner keeps the files its attributes name.  NoirRunner  *)
(* is left out: its constructor raises TypeError (noir.py:60 passes three  *)
(* arguments to Runner.__init__, which takes two), so no instance of it    *)
(* reaches match, save or clean.                                           *)
(***************************************************************************)
\* Number of calls made on one runner.
MaxCalls == 3

\* The files CircomRunner.compile leaves on disk (circom.py:258-306): the
\* circom file, the r1cs file, the <name>_js directory with the wasm file in
\* it, and the keys when the prover is set up.
CompiledFiles(prove) ==
    {"circom", "r1cs", "wasm_dir", "wasm"}
        \cup (IF prove THEN {"zkey", "vkey"} ELSE {})

\* One call on the runner, as the log keeps it.
Call(op, exc, disk) == [op |-> op, exc |-> exc, fs |-> disk]

\* match(input).  CircomRunner writes a fresh input file and records its
\* path before anything can fail; the file of the previous call stays on
\* disk under its old name.  The witness generator needs the wasm file.
RunnerMatch ==
    /\ Len(c_calls) < MaxCalls
    /\ IF runner_cls = "CircomRunner"
       THEN LET disk == fs \cup {"input"}
                         \cup (IF "input" \in fs THEN {"old_input"} ELSE {})
            IN  /\ fs' = disk
                /\ input_path' = TRUE
                /\ \E exc \in {"none", "RegexRunError"} :
                     /\ "wasm" \notin fs => exc = "RegexRunError"
                     /\ c_calls' = Append(c_calls, Call("match", exc, disk))
       ELSE /\ \E exc \in {"none", "RegexRunError"} :
                 c_calls' = Append(c_calls, Call("match", exc, fs))
            /\ UNCHANGED <<fs, input_path>>
    /\ UNCHANGED <<runner_cls, run_the_prover>>
    /\ UNCHANGED NotClean

\* The files CircomRunner.save moves, in the order of its replace calls.
SaveOrder ==
    SelectSeq(<<"circom", "input", "r1cs", "wasm", "zkey", "vkey">>,
              LAMBDA f : CASE f = "input" -> input_path
                           [] f \in {"zkey", "vkey"} -> run_the_prover
                           [] OTHER -> TRUE)

\* The first file of SaveOrder that is not on disk: Path.replace raises
\* FileNotFoundError there.
FirstMissing ==
    IF \A k \in DOMAIN SaveOrder : SaveOrder[k] \in fs
    THEN Len(SaveOrder) + 1
    ELSE CHOOSE k \in DOMAIN SaveOrder :
             /\ SaveOrder[k] \notin fs
             /\ \A i \in 1..(k - 1) : SaveOrder[i] \in fs

\* save(path).  PythonReRunner returns "".  CircomRunner makes the output
\* directory (mkdir raises FileExistsError when it exists) and moves its
\* files there one by one.
RunnerSave ==
    /\ Len(c_calls) < MaxCalls
    /\ IF runner_cls = "CircomRunner"
       THEN IF "output_dir" \in fs
            THEN /\ c_calls' = Append(c_calls, Call("save", "FileExistsError", fs))
                 /\ UNCHANGED fs
            ELSE LET moved == {SaveOrder[k] : k \in 1..(FirstMissing - 1)}
                     disk == (fs \ moved) \cup {"output_dir"}
                     exc == IF FirstMissing <= Len(SaveOrder)
                            THEN "FileNotFoundError" ELSE "none"
                 IN  /\ fs' = disk
                     /\ c_calls' = Append(c_calls, Call("save", exc, disk))
       ELSE /\ c_calls' = Append(c_calls, Call("save", "none", fs))
            /\ UNCHANGED fs
    /\ UNCHANGED <<runner_cls, run_the_prover, input_path>>
    /\ UNCHANGED NotClean

\* CircomRunner.clean (circom.py:357-370): self._wasm_path is set since
\* compile, so shutil.rmtree runs on the <name>_js directory and raises
\* FileNotFoundError when it is gone; the unlink calls that follow pass
\* missing_ok=True.
CircomClean ==
    IF "wasm_dir" \notin fs
    THEN [exc |-> "FileNotFoundError", fs |-> fs]
    ELSE [exc |-> "none",
          fs |-> fs \ ({"wasm_dir", "wasm", "circom", "r1cs", "zkey", "vkey"}
                          \cup (IF input_path THEN {"input"} ELSE {}))]

\* clean().  PythonReRunner returns None.
RunnerClean ==
    /\ Len(c_calls) < MaxCalls
    /\ IF runner_cls = "CircomRunner"
       THEN /\ fs' = CircomClean.fs
            /\ c_calls' = Append(c_calls, Call("clean", CircomClean.exc, CircomClean.fs))
       ELSE /\ c_calls' = Append(c_calls, Call("clean", "none", fs))
            /\ UNCHANGED fs
    /\ UNCHANGED <<runner_cls, run_the_prover, input_path>>
    /\ UNCHANGED NotClean

\* A runner whose constructor, and so compile(), has completed.
InitClean ==
    /\ runner_cls \in {"PythonReRunner", "CircomRunner"}
    /\ run_the_prover \in (IF runner_cls = "CircomRunner" THEN BOOLEAN ELSE {FALSE})
    /\ input_path = FALSE
    /\ fs = IF runner_cls = "CircomRunner" THEN CompiledFiles(run_the_prover) ELSE {}
    /\ c_calls = <<>>
    /\ HarnessIdle
    /\ GenIdle
    /\ RuntimeIdle
    /\ FuzzIdle
    /\ TimeoutIdle
    /\ AbandonIdle
    /\ GrammarIdle
    /\ WalkIdle
    /\ DfaIdle

NextClean ==
    \/ RunnerMatch
    \/ RunnerSave
    \/ RunnerClean

SpecClean == InitClean /\ [][NextClean]_vars

(***************************************************************************)
(* dfa_string_matching (dfa.py:354-504): a random walk over the NFA of the *)
(* pattern.  An automaton is its set of transitions (state, symbol, next   *)
(* state), with "" for a lambda transition, and its final states; state 1  *)
(* is the initial state.  The walk runs on every automaton of a bounded    *)
(* family, which includes shapes NFA.from_regex does not build.            *)
(***************************************************************************)
\* The states and the input symbols of the automata.
NfaStates == {1, 2}
Symbols == {"a", "b"}

\* Size of nfa.transitions.
MaxTransitions == 3
\* max_length.  The source sets 500 (dfa.py:372).
MaxLength == 3
\* max_attempts.  The source sets 5 (dfa.py:412).
MaxWalkAttempts == 2

Range(s) == {s[i] : i \in DOMAIN s}

\* The automata NFA.from_regex may hand back.
Nfas ==
    {[transitions |-> Range(s), final_states |-> F] :
        s \in SeqsUpTo(NfaStates \X (Symbols \cup {""}) \X NfaStates, MaxTransitions),
        F \in SUBSET NfaStates}

\* nfa._get_lambda_closures()[state]: the states lambda transitions reach.
RECURSIVE LambdaClosure(_, _)
LambdaClosure(a, S) ==
    LET more == {tr[3] : tr \in {x \in a.transitions : x[1] \in S /\ x[2] = ""}}
    IN  IF more \subseteq S THEN S ELSE LambdaClosure(a, S \cup more)

\* nfa.accepts_input(input): the subset simulation of the automaton.
RECURSIVE ReadInput(_, _, _)
ReadInput(a, S, input) ==
    IF input = <<>>
    THEN S
    ELSE ReadInput(a,
                   LambdaClosure(a, {tr[3] : tr \in {x \in a.transitions :
                                         x[1] \in S /\ x[2] = Head(input)}}),
                   Tail(input))

accepts_input(a, input) ==
    ReadInput(a, LambdaClosure(a, {1}), input) \cap a.final_states # {}

\* reachable_to_final (lines 386-409): reverse search from the final states
\* over every transition, lambda ones included.
RECURSIVE ReachableToFinal(_, _)
ReachableToFinal(a, S) ==
    LET more == {tr[1] : tr \in {x \in a.transitions : x[3] \in S}}
    IN  IF more \subseteq S THEN S ELSE ReachableToFinal(a, S \cup more)

\* A bug: direct_match is ignored and every labelled transition is a move.
PossibleMoves_AnyMove ==
    {<<tr[2], tr[3]>> : tr \in {x \in nfa.transitions :
        x[1] \in current_states /\ x[2] # ""}}

\* possible_moves (lines 420-429), with direct_match at its default True.
PossibleMoves ==
    {<<tr[2], tr[3]>> : tr \in {x \in nfa.transitions :
        /\ x[1] \in current_states
        /\ x[2] # ""
        /\ x[3] \in ReachableToFinal(nfa, nfa.final_states)}}

\* A bug: the walk's string is returned without asking the automaton.
WalkAccepted_Unchecked == TRUE

\* if nfa.accepts_input(result) (line 496)
WalkAccepted == accepts_input(nfa, w_result)

\* Lines 375-381: the early return of "" when the initial closure holds a
\* final state (random.random() < 0.2); otherwise the first attempt starts.
WalkStart ==
    /\ w_pc = "start"
    /\ \/ /\ LambdaClosure(nfa, {1}) \cap nfa.final_states # {}
          /\ w_pc' = "returned"
          /\ UNCHANGED <<attempt, current_states>>
       \/ /\ w_pc' = "walk"
          /\ attempt' = 1
          /\ current_states' = LambdaClosure(nfa, {1})
    /\ UNCHANGED <<nfa, steps, w_result>>
    /\ UNCHANGED NotWalk

\* One iteration of for _ in range(max_length) (lines 418-493).  Both ways
\* of choosing (random.choice, random.choices with positive weights) can
\* pick any possible move.
WalkStep ==
    /\ w_pc = "walk"
    /\ IF steps >= MaxLength \/ PossibleMoves = {}
       THEN /\ w_pc' = "check"
            /\ UNCHANGED <<steps, current_states, w_result>>
       ELSE \E mv \in PossibleMoves :
              /\ w_result' = Append(w_result, mv[1])
              /\ current_states' = LambdaClosure(nfa, {mv[2]})
              /\ steps' = steps + 1
              /\ \/ w_pc' = "walk"
                 \/ /\ current_states' \cap nfa.final_states # {}
                    /\ w_pc' = "check"   \* break
    /\ UNCHANGED <<nfa, attempt>>
    /\ UNCHANGED NotWalk

\* Lines 495-504: return the string if the automaton accepts it, else start
\* the next attempt, and raise ValueError after the last one.
WalkCheck ==
    /\ w_pc = "check"
    /\ IF WalkAccepted
       THEN /\ w_pc' = "returned"
            /\ UNCHANGED <<attempt, steps, current_states, w_result>>
       ELSE IF attempt < MaxWalkAttempts
       THEN /\ w_pc' = "walk"
            /\ attempt' = attempt + 1
            /\ steps' = 0
            /\ current_states' = LambdaClosure(nfa, {1})
            /\ w_result' = <<>>
       ELSE /\ w_pc' = "ValueError"
            /\ UNCHANGED <<attempt, steps, current_states, w_result>>
    /\ UNCHANGED nfa
    /\ UNCHANGED NotWalk

\* dfa_string_matching after NFA.from_regex returned.
InitWalk ==
    /\ nfa \in Nfas
    /\ w_pc = "start"
    /\ attempt = 0
    /\ steps = 0
    /\ current_states = {}
    /\ w_result = <<>>
    /\ HarnessIdle
    /\ GenIdle
    /\ RuntimeIdle
    /\ FuzzIdle
    /\ TimeoutIdle
    /\ AbandonIdle
    /\ GrammarIdle
    /\ CleanIdle
    /\ DfaIdle

NextWalk ==
    \/ WalkStart
    \/ WalkStep
    \/ WalkCheck

SpecWalk == InitWalk /\ [][NextWalk]_vars

(***************************************************************************)
(* NFAInvalidGenerator.generate_unsafe (invinpgen.py:396-511): a walk over *)
(* the same automata that appends symbols no transition carries.           *)
(* self._completly_invalid_probability is 1.2, so completely_invalid is    *)
(* True on every call and the elif branches of lines 452-461 never run.    *)
(***************************************************************************)
\* self._max_cycle.  The source sets 100 (invinpgen.py:394).
MaxCycle == 2

\* A bug: the symbols the current state has no transition on are taken
\* (all_invalid_inputs, lines 433-434) instead.
CompletelyInvalidSymbols_OfState ==
    Symbols \ {x[2] : x \in {y \in nfa.transitions : y[1] \in current_states}}

\* completely_invalid_symbols (lines 410-416): the supported symbols that
\* are on no transition of the automaton.
CompletelyInvalidSymbols == Symbols \ {x[2] : x \in nfa.transitions}

\* The states that have at least one transition (lines 424-428, 497-501).
WithTransitions == {x[1] : x \in nfa.transitions}

\* One iteration of while True (lines 416-506).  current_states holds the
\* one current_state.  A state without transitions either ends the walk or
\* is left for a random state, after which random.choice runs on the empty
\* key list of the state just left (line 436) and raises IndexError.
InvalidWalkStep ==
    /\ w_pc = "invalid_walk"
    /\ LET next_transitions == {x \in nfa.transitions : x[1] \in current_states}
       IN  IF next_transitions = {}
           THEN /\ w_pc' \in {"end", "IndexError"}
                /\ UNCHANGED <<current_states, w_result, steps>>
           ELSE IF CompletelyInvalidSymbols = {}
           THEN /\ w_pc' = "end"
                /\ UNCHANGED <<current_states, w_result, steps>>
           ELSE \E sym \in CompletelyInvalidSymbols,
                   nxt \in {x[3] : x \in next_transitions} :
                  /\ w_result' = Append(w_result, sym)
                  /\ \/ /\ nxt \in nfa.final_states
                        /\ w_pc' = "end"        \* early end in a final state
                        /\ current_states' = {nxt}
                        /\ UNCHANGED steps
                     \/ /\ \E s \in (IF nxt \in nfa.final_states
                                       /\ nxt \notin WithTransitions
                                     THEN WithTransitions ELSE {nxt}) :
                              current_states' = {s}
                        /\ steps' = steps + 1
                        /\ w_pc' = IF steps + 1 >= MaxCycle
                                   THEN "end" ELSE "invalid_walk"
    /\ UNCHANGED <<nfa, attempt>>
    /\ UNCHANGED NotWalk

\* Lines 508-511: None when nothing was appended, else the string.
InvalidWalkReturn ==
    /\ w_pc = "end"
    /\ w_pc' = IF Len(w_result) = 0 THEN "None" ELSE "returned"
    /\ UNCHANGED <<nfa, attempt, steps, current_states, w_result>>
    /\ UNCHANGED NotWalk

\* generate_unsafe after regex_to_nfa returned: the automaton of a pattern
\* accepts at least one string.
InitInvalidWalk ==
    /\ nfa \in {a \in Nfas : 1 \in ReachableToFinal(a, a.final_states)}
    /\ w_pc = "invalid_walk"
    /\ attempt = 0
    /\ steps = 0
    /\ current_states = {1}
    /\ w_result = <<>>
    /\ HarnessIdle
    /\ GenIdle
    /\ RuntimeIdle
    /\ FuzzIdle
    /\ TimeoutIdle
    /\ AbandonIdle
    /\ GrammarIdle
    /\ CleanIdle
    /\ DfaIdle

NextInvalidWalk ==
    \/ InvalidWalkStep
    \/ InvalidWalkReturn

SpecInvalidWalk == InitInvalidWalk /\ [][NextInvalidWalk]_vars

(***************************************************************************)
(* DFAs (dfa.py).  A DFA is its states, its transitions (state, symbol,    *)
(* next state) and its final states; state 1 is the initial state (q0 in   *)
(* generate_random_dfa) and the alphabet is Symbols.  A missing transition *)
(* leads to the trap state 0.                                              *)
(***************************************************************************)
\* dfa.transitions[s][sym], or the trap state.
DfaDelta(d, s, sym) ==
    LET T == {x \in d.transitions : x[1] = s /\ x[2] = sym}
    IN  IF T = {} THEN 0 ELSE (CHOOSE x \in T : TRUE)[3]

\* The states reachable from the states of S.
RECURSIVE DfaReach(_, _)
DfaReach(d, S) ==
    LET more == {x[3] : x \in {y \in d.transitions : y[1] \in S}}
    IN  IF more \subseteq S THEN S ELSE DfaReach(d, S \cup more)

\* p and q accept the same strings of length up to k.
RECURSIVE Equivalent(_, _, _, _)
Equivalent(d, p, q, k) ==
    /\ (p \in d.final_states) = (q \in d.final_states)
    /\ \/ k = 0
       \/ p = q
       \/ \A sym \in Symbols :
              Equivalent(d, DfaDelta(d, p, sym), DfaDelta(d, q, sym), k - 1)

\* DFA.minify(): the unreachable states are dropped and the states that
\* accept the same language are merged; a state of the result is a class of
\* states of d.
minify(d) ==
    LET R == DfaReach(d, {1})
        cls(s) == {q \in R : Equivalent(d, s, q, Cardinality(d.states))}
    IN  [states |-> {cls(s) : s \in R},
         transitions |-> {<<cls(x[1]), x[2], cls(x[3])>> :
                             x \in {y \in d.transitions : y[1] \in R}},
         final_states |-> {cls(s) : s \in R \cap d.final_states}]

\* transitions[s][sym] = dest
SetTransition(T, s, sym, dest) ==
    {x \in T : ~(x[1] = s /\ x[2] = sym)} \cup {<<s, sym, dest>>}

(***************************************************************************)
(* generate_random_dfa (dfa.py:154-286), one random choice after another.  *)
(***************************************************************************)
\* The largest max_depth argument.
MaxDepth == 2

\* Lines 176-198: the number of states, the final states and a random total
\* transition table.
PickRandomDfa ==
    /\ d_pc = "pick"
    /\ \E num_states \in 1..max_depth :
         LET states == 1..num_states IN
         \E F \in SUBSET states, tr \in [states \X Symbols -> states] :
           /\ IF single_final_state THEN Cardinality(F) = 1 ELSE F # {}
           /\ dfa' = [states |-> states,
                      transitions |-> {<<k[1], k[2], tr[k]>> : k \in DOMAIN tr},
                      final_states |-> F]
    /\ d_pc' = "self_loop"
    /\ UNCHANGED <<max_depth, single_final_state, strategy, d_out>>
    /\ UNCHANGED NotDfa

\* Lines 200-208: ensure at least one self-loop.
EnsureSelfLoop ==
    /\ d_pc = "self_loop"
    /\ IF \E x \in dfa.transitions : x[1] = x[3]
       THEN UNCHANGED dfa
       ELSE \E some_state \in dfa.states, some_symbol \in Symbols :
              dfa' = [dfa EXCEPT !.transitions =
                         SetTransition(@, some_state, some_symbol, some_state)]
    /\ d_pc' = "branching"
    /\ UNCHANGED <<max_depth, single_final_state, strategy, d_out>>
    /\ UNCHANGED NotDfa

\* Lines 210-227: ensure a state with two different targets, forced on the
\* initial state.  Without branching both symbols of the initial state have
\* the same target, so the test of line 220 holds.
EnsureBranching ==
    /\ d_pc = "branching"
    /\ IF \E s \in dfa.states :
            Cardinality({x[3] : x \in {y \in dfa.transitions : y[1] = s}}) >= 2
       THEN UNCHANGED dfa
       ELSE \E sym1 \in Symbols, sym2 \in Symbols :
              /\ sym1 # sym2
              /\ LET possible_targets == dfa.states \ {DfaDelta(dfa, 1, sym1)}
                 IN  IF possible_targets = {}
                     THEN UNCHANGED dfa
                     ELSE \E dest \in possible_targets :
                            dfa' = [dfa EXCEPT !.transitions =
                                       SetTransition(@, 1, sym2, dest)]
    /\ d_pc' = "optional"
    /\ UNCHANGED <<max_depth, single_final_state, strategy, d_out>>
    /\ UNCHANGED NotDfa

\* A bug: the optional path is not built and the initial state is not made
\* final.
OptionalPath_Skipped == {dfa}

\* Lines 229-255, as the set of DFAs the repair can leave.  With one final
\* state and more than one state: a direct transition from the initial state
\* to the final state, then a transition to the final state from the target
\* of the first transition of the initial state that does not lead there.
\* Without single_final_state: the initial state becomes final.
OptionalPath ==
    IF single_final_state /\ Cardinality(dfa.states) > 1
    THEN LET final_state == CHOOSE f \in dfa.final_states : TRUE
             direct ==
                 IF \E sym \in Symbols : DfaDelta(dfa, 1, sym) = final_state
                 THEN {dfa.transitions}
                 ELSE {SetTransition(dfa.transitions, 1, sym, final_state) :
                          sym \in Symbols}
             indirect(T) ==
                 LET d == [dfa EXCEPT !.transitions = T]
                     intermediate_symbols ==
                         {sym \in Symbols : DfaDelta(d, 1, sym) # final_state}
                 IN  IF intermediate_symbols = {}
                     THEN {T}
                     ELSE {SetTransition(T, DfaDelta(d, 1, sym), sym2, final_state) :
                              sym \in intermediate_symbols, sym2 \in Symbols}
         IN  {[dfa EXCEPT !.transitions = T2] :
                 T2 \in UNION {indirect(T) : T \in direct}}
    ELSE IF ~single_final_state
    THEN {[dfa EXCEPT !.final_states = @ \cup {1}]}
    ELSE {dfa}

EnsureOptionalPath ==
    /\ d_pc = "optional"
    /\ dfa' \in OptionalPath
    /\ d_pc' = "minify"
    /\ UNCHANGED <<max_depth, single_final_state, strategy, d_out>>
    /\ UNCHANGED NotDfa

\* Lines 257-286: the DFA is built, minimized and returned.
MinifyRandomDfa ==
    /\ d_pc = "minify"
    /\ d_out' = minify(dfa)
    /\ d_pc' = "returned"
    /\ UNCHANGED <<dfa, max_depth, single_final_state, strategy>>
    /\ UNCHANGED NotDfa

InitRandomDfa ==
    /\ dfa = [states |-> {}, transitions |-> {}, final_states |-> {}]
    /\ d_pc = "pick"
    /\ max_depth \in 1..MaxDepth
    /\ single_final_state \in BOOLEAN
    /\ strategy = "none"
    /\ d_out = [states |-> {}, transitions |-> {}, final_states |-> {}]
    /\ HarnessIdle
    /\ GenIdle
    /\ RuntimeIdle
    /\ FuzzIdle
    /\ TimeoutIdle
    /\ AbandonIdle
    /\ GrammarIdle
    /\ CleanIdle
    /\ WalkIdle

NextRandomDfa ==
    \/ PickRandomDfa
    \/ EnsureSelfLoop
    \/ EnsureBranching
    \/ EnsureOptionalPath
    \/ MinifyRandomDfa

SpecRandomDfa == InitRandomDfa /\ [][NextRandomDfa]_vars

(***************************************************************************)
(* Normalization of a DFA to a single final state.  The source has         *)
(* transform_dfa_to_single_final_state (dfa.py:289-351); the strategies    *)
(* pick_one, new_dummy and merge of transform_dfa_to_single_accepting_state*)
(* are called by tests/test_dfa.py:65-76 but are not in the source, and    *)
(* follow the description of the single-accept normalization.              *)
(***************************************************************************)
\* The numbers of states of the DFAs given to the normalization.
DfaSizes == {1, 2, 3}

\* The DFAs regex_to_dfa hands back: minimal (every state reachable, no two
\* states equivalent), with at least one final state; total, and for the
\* smaller sizes also partial (0 stands for no transition).
MinimalDfas ==
    {d \in UNION {{[states |-> 1..m,
                    transitions |-> {<<k[1], k[2], tr[k]>> :
                                        k \in {j \in DOMAIN tr : tr[j] # 0}},
                    final_states |-> F] :
                       F \in (SUBSET (1..m)) \ {{}},
                       tr \in [(1..m) \X Symbols -> (IF m < 3 THEN 0 ELSE 1)..m]} :
                          m \in DfaSizes} :
        /\ DfaReach(d, {1}) = d.states
        /\ \A p, q \in d.states :
             p # q => ~Equivalent(d, p, q, Cardinality(d.states))}

\* max(states)
MaxState(d) == CHOOSE s \in d.states : \A q \in d.states : q <= s

\* A bug: the original final states stay final.
transform_dfa_KeepFinals(d, sym0) ==
    [states |-> d.states \cup {MaxState(d) + 1},
     transitions |->
         {<<x[1], x[2], IF x[1] \in d.final_states THEN MaxState(d) + 1 ELSE x[3]>> :
             x \in d.transitions},
     final_states |-> d.final_states \cup {MaxState(d) + 1}]

\* transform_dfa_to_single_final_state, lines 306-340: a new final state
\* max(states) + 1; every transition that leaves an original final state
\* goes to it, and a final state without transitions gets one on the symbol
\* list(alphabet)[0] (sym0); the new state is the only final state.
transform_dfa(d, sym0) ==
    [states |-> d.states \cup {MaxState(d) + 1},
     transitions |->
         {<<x[1], x[2], IF x[1] \in d.final_states THEN MaxState(d) + 1 ELSE x[3]>> :
             x \in d.transitions}
           \cup {<<f, sym0, MaxState(d) + 1>> :
                    f \in {s \in d.final_states :
                              \A x \in d.transitions : x[1] # s}},
     final_states |-> {MaxState(d) + 1}]

\* pick-one: the chosen final state c is the sole final state; a transition
\* that targeted another original final state targets c.
pick_one(d, c) ==
    [d EXCEPT !.transitions =
                  {<<x[1], x[2], IF x[3] \in d.final_states THEN c ELSE x[3]>> :
                      x \in d.transitions},
              !.final_states = {c}]

\* new-dummy: a fresh final state without outgoing transitions; a transition
\* that targeted an original final state targets it; the original final
\* states are dropped, unless one is the initial state.
new_dummy(d) ==
    LET keep == (d.states \ d.final_states) \cup {1}
    IN  [states |-> keep \cup {MaxState(d) + 1},
         transitions |->
             {<<x[1], x[2],
                IF x[3] \in d.final_states THEN MaxState(d) + 1 ELSE x[3]>> :
                 x \in {y \in d.transitions : y[1] \in keep}},
         final_states |-> {MaxState(d) + 1}]

\* merge: the final states collapse into one state, the initial state if it
\* is final; its transition on a symbol is one of the originals' transitions
\* on that symbol (first[sym], 0 when there is none).
merge(d, first) ==
    LET m == IF 1 \in d.final_states
             THEN 1
             ELSE CHOOSE f \in d.final_states : \A q \in d.final_states : f <= q
        g(s) == IF s \in d.final_states THEN m ELSE s
    IN  [states |-> (d.states \ d.final_states) \cup {m},
         transitions |->
             {<<x[1], x[2], g(x[3])>> :
                 x \in {y \in d.transitions : y[1] \notin d.final_states}}
               \cup {<<m, sym, g(first[sym])>> :
                        sym \in {s \in Symbols : first[s] # 0}},
         final_states |-> {m}]

\* The choices of merge for the transitions of the merged state.
FirstFound(d) ==
    {first \in [Symbols -> 0..MaxState(d)] :
        \A sym \in Symbols :
            LET dests == {x[3] : x \in {y \in d.transitions :
                              y[1] \in d.final_states /\ y[2] = sym}}
            IN  IF dests = {} THEN first[sym] = 0 ELSE first[sym] \in dests}

\* transform_dfa_to_single_accepting_state(dfa, strategy): a DFA with one
\* final state is returned as it is (as in dfa.py:303-304); otherwise the
\* rewritten DFA is minimized.
Normalize ==
    /\ d_pc = "normalize"
    /\ strategy \in {"pick_one", "new_dummy", "merge"}
    /\ IF Cardinality(dfa.final_states) = 1
       THEN d_out' = dfa
       ELSE \E c \in dfa.final_states, first \in FirstFound(dfa) :
              d_out' = minify(CASE strategy = "pick_one" -> pick_one(dfa, c)
                                [] strategy = "new_dummy" -> new_dummy(dfa)
                                [] strategy = "merge" -> merge(dfa, first))
    /\ d_pc' = "returned"
    /\ UNCHANGED <<dfa, max_depth, single_final_state, strategy>>
    /\ UNCHANGED NotDfa

\* transform_dfa_to_single_final_state(dfa): lines 341-351 minimize the
\* rewritten DFA and raise when minify() or the conversion to a regex fails.
TransformToSingleFinalState ==
    /\ d_pc = "normalize"
    /\ strategy = "single_final_state"
    /\ IF Cardinality(dfa.final_states) = 1
       THEN /\ d_out' = dfa
            /\ d_pc' = "returned"
       ELSE \/ /\ \E sym0 \in Symbols : d_out' = minify(transform_dfa(dfa, sym0))
               /\ d_pc' = "returned"
            \/ /\ d_pc' = "Exception"
               /\ UNCHANGED d_out
    /\ UNCHANGED <<dfa, max_depth, single_final_state, strategy>>
    /\ UNCHANGED NotDfa

InitNormalize ==
    /\ dfa \in MinimalDfas
    /\ d_pc = "normalize"
    /\ max_depth = 0
    /\ single_final_state = FALSE
    /\ strategy \in {"pick_one", "new_dummy", "merge", "single_final_state"}
    /\ d_out = [states |-> {}, transitions |-> {}, final_states |-> {}]
    /\ HarnessIdle
    /\ GenIdle
    /\ RuntimeIdle
    /\ FuzzIdle
    /\ TimeoutIdle
    /\ AbandonIdle
    /\ GrammarIdle
    /\ CleanIdle
    /\ WalkIdle

NextNormalize ==
    \/ Normalize
    \/ TransformToSingleFinalState

SpecNormalize == InitNormalize /\ [][NextNormalize]_vars

(***************************************************************************)
(* harness() under timeout_decorator (fuzzer.py:146-203, 419-429).  The    *)
(* function runs in a daemon thread; when thread.join(seconds) gives up,   *)
(* wrapper() kills the child processes and raises TimeoutError, and        *)
(* nothing stops the thread: the steps of harness() stay enabled.  A       *)
(* killed subprocess shows as an error of the pending runner call.         *)
(***************************************************************************)
\* Lines 166-192: the thread is still alive after thread.join(seconds).
TimeoutExpires ==
    /\ h_pc # "done"
    /\ ~abandoned
    /\ abandoned' = TRUE
    /\ UNCHANGED <<BaseVars, cvars, wvars, dvars, xvars>>

NextAbandoned ==
    \/ Next
    \/ TimeoutExpires

SpecAbandoned == Init /\ [][NextAbandoned]_vars

(***************************************************************************)
(* regex_to_grammar (transformers.py).  A token is a record with the type  *)
(* sre_parse gives it, the bounds of a repetition and the token lists it   *)
(* holds.  A rule name "<PREFIX_k>" is the pair <<PREFIX, k>>; a rule is   *)
(* the list of its expansions, an expansion the sequence of its parts, and *)
(* a part a rule name or a literal text <<"text", length>>.  The value of  *)
(* a SUBPATTERN token is the tuple (group, add_flags, del_flags, p) and    *)
(* the value of a BRANCH token the pair (None, branches), as sre_parse     *)
(* builds them.                                                            *)
(***************************************************************************)
\* sre_parse.MAXREPEAT, the max_count of an unbounded repetition: 2^32 - 1 in
\* CPython.  The code only compares it, so it is held here as the largest
\* integer TLC represents, above every finite bound.
MAXREPEAT == 2147483647

\* The clamp of handle_max_repeat.
RepeatClamp == 6

\* Tokens of a pattern, nested ones included.
MaxTokens == 3
\* Largest finite bound of a repetition given to handle_max_repeat.
MaxRepeat == 8

Token(type, min, max, data) ==
    [type |-> type, min |-> min, max |-> max, data |-> data]

\* The bounds of the repetitions inside a pattern: "?" and "+".
RepeatBounds == {<<0, 1>>, <<1, MAXREPEAT>>}

\* The token lists sre_parse.parse hands back, with at most k tokens in all:
\* literals, classes, dots, anchors, groups, repetitions (of the items of a
\* non-capturing group too, which sre_parse unwraps) and branches of two.
RECURSIVE TokenLists(_)
RECURSIVE TokensOf(_)
TokenLists(k) ==
    IF k = 0
    THEN {<<>>}
    ELSE {<<>>} \cup UNION {{<<t>> \o rest : t \in TokensOf(j),
                                            rest \in TokenLists(k - j)} : j \in 1..k}

TokensOf(j) ==
    {Token("LITERAL", 0, 0, <<>>), Token("IN", 0, 0, <<>>),
     Token("ANY", 0, 0, <<>>), Token("AT", 0, 0, <<>>)}
      \cup {Token("SUBPATTERN", 0, 0, <<l>>) : l \in TokenLists(j - 1)}
      \cup {Token("MAX_REPEAT", b[1], b[2], <<l>>) :
               b \in RepeatBounds, l \in TokenLists(j - 1)}
      \cup UNION {{Token("BRANCH", 0, 0, <<l1, l2>>) :
                      l1 \in TokenLists(a), l2 \in TokenLists(j - 1 - a)} :
                         a \in 0..(j - 1)}

\* The grammar under construction with the record of the names handed out
\* and of the rules assigned twice, and the exception that is propagating.
Building(g, names, over) ==
    [grammar |-> g, names |-> names, over |-> over, raised |-> ""]

Raise(st, exception) == [st EXCEPT !.raised = exception]

\* new_rule_name (lines 320-326): the first "<prefix_k>" that is not a key of
\* the grammar.
new_rule_name(st, prefix) ==
    LET free == {k \in 0..Cardinality(DOMAIN st.grammar) :
                    <<prefix, k>> \notin DOMAIN st.grammar}
    IN  <<prefix, CHOOSE k \in free : \A j \in free : k <= j>>

\* x = new_rule_name(grammar, prefix); the name is Last(names) afterwards.
NewRule(st, prefix) ==
    [st EXCEPT !.names = Append(@, new_rule_name(st, prefix))]

LastName(st) == st.names[Len(st.names)]

\* grammar[name] = expansions
Store(st, name, expansions) ==
    [st EXCEPT !.grammar = (name :> expansions) @@ @,
               !.over = IF name \in DOMAIN st.grammar THEN @ \cup {name} ELSE @]

\* handle_max_repeat (lines 292-316): the clamp, then one expansion for each
\* count of range(min_count, max_count + 1), and "" when min_count is 0.
handle_max_repeat(sub_rule, min, max, st) ==
    LET clamped == IF max > RepeatClamp /\ max # MAXREPEAT THEN RepeatClamp ELSE max
        top == IF clamped = MAXREPEAT THEN min + 3 ELSE clamped
        st1 == NewRule(st, "MREP")
        unrolled == [i \in 1..(IF top >= min THEN top - min + 1 ELSE 0) |->
                        [j \in 1..(min + i - 1) |-> sub_rule]]
        expansions == unrolled \o (IF min = 0 THEN << <<>> >> ELSE <<>>)
    IN  Store(st1, LastName(st1), expansions)

\* flush_literal_buffer (lines 101-109) and the append that follows it: the
\* buffered characters become a LIT rule.  The result is the pair of the
\* grammar and the expansion parts.
Flush(st, buffered, parts) ==
    IF buffered = 0
    THEN <<st, parts>>
    ELSE LET st1 == NewRule(st, "LIT")
         IN  <<Store(st1, LastName(st1), << << <<"text", buffered>> >> >>),
               Append(parts, LastName(st1))>>

RECURSIVE parse_tokens_into_rule(_, _, _)
RECURSIVE ParseBranches(_, _, _)
RECURSIVE ParseSequence(_, _, _, _)

\* The for loop of lines 88-92: each branch gets a BRANCH name, is parsed
\* into it, and the name joins the expansions.
ParseBranches(branches, st, expansions) ==
    IF branches = <<>> \/ st.raised # ""
    THEN <<st, expansions>>
    ELSE LET st1 == NewRule(st, "BRANCH")
             sub_rule == LastName(st1)
             st2 == parse_tokens_into_rule(Head(branches), st1, sub_rule)
         IN  ParseBranches(Tail(branches), st2, Append(expansions, <<sub_rule>>))

\* The inline BRANCH of lines 154-173.  "_, (__, branches) = token_value"
\* unpacks the pair (None, branches) one level too deep: with two branches
\* the name branches is bound to the second branch, with another number the
\* unpacking raises ValueError.  Each token of that branch is then parsed as
\* if it were a token list, and line 113 raises TypeError on its first item.
InlineBranch(token, st) ==
    IF Len(token.data) # 2
    THEN Raise(st, "ValueError")
    ELSE LET st1 == NewRule(st, "UNION")
             union_rule == LastName(st1)
         IN  IF token.data[2] = <<>>
             THEN Store(st1, union_rule, <<>>)
             ELSE Raise(NewRule(st1, "BRNCH"), "TypeError")

\* The while loop of lines 112-208 from the token at the head on, with the
\* length of literal_buffer and expansion_parts so far, then lines 210-213.
ParseSequence(token_list, st, buffered, parts) ==
    IF st.raised # ""
    THEN <<st, parts>>
    ELSE IF token_list = <<>>
    THEN Flush(st, buffered, parts)
    ELSE LET token == Head(token_list)
             rest == Tail(token_list)
             flushed == Flush(st, buffered, parts)
             st0 == flushed[1]
             parts0 == flushed[2]
         IN  CASE token.type = "LITERAL" ->
                    ParseSequence(rest, st, buffered + 1, parts)
               [] token.type = "IN" ->
                    \* handle_in_class (lines 227-276)
                    LET st1 == NewRule(st0, "CLASS")
                        st2 == Store(st1, LastName(st1), << << <<"text", 1>> >> >>)
                    IN  ParseSequence(rest, st2, 0, Append(parts0, LastName(st1)))
               [] token.type = "ANY" ->
                    \* handle_dot (lines 279-289)
                    LET st1 == NewRule(st0, "DOT")
                        st2 == Store(st1, LastName(st1), << << <<"text", 1>> >> >>)
                    IN  ParseSequence(rest, st2, 0, Append(parts0, LastName(st1)))
               [] token.type = "SUBPATTERN" ->
                    \* line 147: token_value is a tuple and has no .data
                    <<Raise(st0, "AttributeError"), parts0>>
               [] token.type = "BRANCH" ->
                    LET st1 == InlineBranch(token, st0)
                    IN  ParseSequence(rest, st1, 0, Append(parts0, LastName(st1)))
               [] token.type = "MAX_REPEAT" ->
                    LET st1 == NewRule(st0, "REP")
                        repeated_rule == LastName(st1)
                        st2 == parse_tokens_into_rule(token.data[1], st1, repeated_rule)
                        st3 == handle_max_repeat(repeated_rule, token.min, token.max, st2)
                    IN  IF st2.raised # ""
                        THEN <<st2, parts0>>
                        ELSE ParseSequence(rest, st3, 0, Append(parts0, LastName(st3)))
               [] OTHER ->
                    \* AT and the tokens of the final else: flushed and skipped
                    ParseSequence(rest, st0, 0, parts0)

\* parse_tokens_into_rule (lines 71-221): a lone BRANCH token makes the rule
\* the list of its branches; otherwise the rule is one expansion, the
\* concatenation of the parts, or "" when there is none.
parse_tokens_into_rule(token_list, st, rule_name) ==
    LET parsed == IF Len(token_list) = 1 /\ token_list[1].type = "BRANCH"
                  THEN ParseBranches(token_list[1].data, st, <<>>)
                  ELSE LET sequence == ParseSequence(token_list, st, 0, <<>>)
                       IN  <<sequence[1], <<sequence[2]>>>>
    IN  IF parsed[1].raised # ""
        THEN parsed[1]
        ELSE Store(parsed[1], rule_name, parsed[2])

\* regex_to_grammar (lines 57-68); an exception of the parse leaves it
\* without a grammar.
RegexToGrammar ==
    /\ x_pc = "regex_to_grammar"
    /\ LET start == Building((<<"start", 0>> :> << << <<"REGEX", 0>> >> >>), <<>>, {})
           st == parse_tokens_into_rule(parsed_pattern, start, <<"REGEX", 0>>)
       IN  /\ grammar' = IF st.raised = "" THEN st.grammar ELSE <<>>
           /\ handed_out' = st.names
           /\ overwritten' = st.over
           /\ x_pc' = IF st.raised = "" THEN "returned" ELSE st.raised
    /\ UNCHANGED <<parsed_pattern, min_count, max_count>>
    /\ UNCHANGED NotGrammar

\* regex_to_grammar after sre_parse.parse returned.
InitGrammar ==
    /\ x_pc = "regex_to_grammar"
    /\ parsed_pattern \in TokenLists(MaxTokens)
    /\ min_count = 0
    /\ max_count = 0
    /\ grammar = <<>>
    /\ handed_out = <<>>
    /\ overwritten = {}
    /\ HarnessIdle
    /\ GenIdle
    /\ RuntimeIdle
    /\ FuzzIdle
    /\ TimeoutIdle
    /\ AbandonIdle
    /\ CleanIdle
    /\ WalkIdle
    /\ DfaIdle

NextGrammar == RegexToGrammar

SpecGrammar == InitGrammar /\ [][NextGrammar]_vars

\* handle_max_repeat(repeated_rule, min_count, max_count, grammar), called as
\* at line 187 with the rule <REP_0> parsed.
HandleMaxRepeat ==
    /\ x_pc = "handle_max_repeat"
    /\ LET st == handle_max_repeat(<<"REP", 0>>, min_count, max_count,
                                   Building(grammar, handed_out, overwritten))
       IN  /\ grammar' = st.grammar
           /\ handed_out' = st.names
           /\ overwritten' = st.over
    /\ x_pc' = "repeat_returned"
    /\ UNCHANGED <<parsed_pattern, min_count, max_count>>
    /\ UNCHANGED NotGrammar

\* The repetitions sre_parse hands over: min_count <= max_count, and
\* MAXREPEAT for "*", "+" and "{m,}".
InitRepeat ==
    /\ x_pc = "handle_max_repeat"
    /\ parsed_pattern = <<>>
    /\ min_count \in 0..MaxRepeat
    /\ max_count \in (min_count..MaxRepeat) \cup {MAXREPEAT}
    /\ grammar = (<<"REP", 0>> :> << << <<"text", 1>> >> >>)
    /\ handed_out = << <<"REP", 0>> >>
    /\ overwritten = {}
    /\ HarnessIdle
    /\ GenIdle
    /\ RuntimeIdle
    /\ FuzzIdle
    /\ TimeoutIdle
    /\ AbandonIdle
    /\ CleanIdle
    /\ WalkIdle
    /\ DfaIdle

NextRepeat == HandleMaxRepeat

SpecRepeat == InitRepeat /\ [][NextRepeat]_vars

(***************************************************************************)
(* Properties of harness(), checked under Spec.                            *)
(***************************************************************************)
Done == h_pc = "done"

\* The target outcomes that count as a failure of the secondary runner.
TargetFailed(e) == e.raised \/ e.status # oracle

\* The scan ran to the end of the list: no INVALID_SEED, COMPILE_ERROR or RUN_ERROR.
NoAbort == Done /\ result.status \notin {"INVALID_SEED", "COMPILE_ERROR", "RUN_ERROR"}

\* The inputs of the entries of a log, in order.
LogInputs(log) == [k \in DOMAIN log |-> log[k].input]

\* C1: if constructing the secondary runner raises RegexCompileError, harness
\* returns COMPILE_ERROR with empty failed_inputs and match is never called, on
\* the secondary runner or on the primary runner.
C1_CompileErrorNoMatch ==
    secondary_compile = "error" =>
        /\ Done
        /\ result.status = "COMPILE_ERROR"
        /\ result.failed_inputs = <<>>
        /\ primary_log = <<>>
        /\ secondary_log = <<>>

C1_Witness ==
    /\ secondary_compile = "error"
    /\ Done
    /\ inputs # <<>>

\* C2: with oracle = True and a non-empty input list that the primary runner
\* matches throughout, a secondary runner that always reports no match makes
\* harness return FAILED with failed_inputs equal to the input list, in order.
C2_AlwaysNoMatchFails ==
    ( /\ Done
      /\ oracle
      /\ inputs # <<>>
      /\ secondary_compile = "ok"
      /\ \A k \in DOMAIN primary_log :
            ~primary_log[k].raised /\ primary_log[k].status
      /\ \A k \in DOMAIN secondary_log :
            ~secondary_log[k].raised /\ ~secondary_log[k].status )
    => /\ result.status = "FAILED"
       /\ result.failed_inputs = inputs

C2_Witness ==
    /\ Done
    /\ oracle
    /\ Len(inputs) = MaxInputs
    /\ Len(secondary_log) = MaxInputs
    /\ \A k \in DOMAIN primary_log :
          ~primary_log[k].raised /\ primary_log[k].status
    /\ \A k \in DOMAIN secondary_log :
          ~secondary_log[k].raised /\ ~secondary_log[k].status
    /\ result.failed_inputs = inputs

\* C3: the first input on which the primary runner's verdict differs from the
\* oracle ends the run with INVALID_SEED at once: the secondary runner is called
\* neither on that input nor on a later one, whatever mismatches of the
\* secondary runner were recorded before.
C3_InvalidSeedAtOnce ==
    \A k \in DOMAIN primary_log :
        (~primary_log[k].raised /\ primary_log[k].status # oracle) =>
            /\ k = Len(primary_log)
            /\ Done
            /\ result.status = "INVALID_SEED"
            /\ Len(secondary_log) = k - 1

C3_Witness ==
    /\ Done
    /\ Len(primary_log) = 2
    /\ ~primary_log[2].raised
    /\ primary_log[2].status # oracle
    /\ failed_inputs # <<>>
    /\ result.status = "INVALID_SEED"

\* C4: when the run is not aborted, a verdict mismatch of the secondary runner
\* does not stop the scan: both runners match every input, in list order, and
\* the status is FAILED iff some input had a secondary verdict different from
\* the oracle, and SUCCESS otherwise.
C4_ScanCompletes ==
    NoAbort =>
        /\ LogInputs(primary_log) = inputs
        /\ LogInputs(secondary_log) = inputs
        /\ result.status \in {"FAILED", "SUCCESS"}
        /\ result.status = "FAILED" <=>
               \E k \in DOMAIN secondary_log : secondary_log[k].status # oracle

C4_Witness ==
    /\ NoAbort
    /\ Len(inputs) = 2
    /\ secondary_log[1].status # oracle
    /\ secondary_log[2].status = oracle
    /\ result.status = "FAILED"

\* C5 as stated: a RegexRunError of either runner ends the run at once with
\* RUN_ERROR.
C5_Original ==
    /\ \A k \in DOMAIN secondary_log :
          secondary_log[k].raised =>
              /\ Done
              /\ result.status = "RUN_ERROR"
              /\ k = Len(secondary_log)
              /\ Len(primary_log) = k
    /\ \A k \in DOMAIN primary_log :
          primary_log[k].raised =>
              /\ Done
              /\ result.status = "RUN_ERROR"
              /\ k = Len(primary_log)
              /\ Len(secondary_log) = k - 1

\* C5, amended: a RegexRunError of the secondary runner ends the run at once
\* with RUN_ERROR and one of the primary runner ends it at once with
\* INVALID_SEED; in both cases no later input is matched by either runner.
C5_RunErrorAborts ==
    /\ \A k \in DOMAIN secondary_log :
          secondary_log[k].raised =>
              /\ Done
              /\ result.status = "RUN_ERROR"
              /\ k = Len(secondary_log)
              /\ Len(primary_log) = k
    /\ \A k \in DOMAIN primary_log :
          primary_log[k].raised =>
              /\ Done
              /\ result.status = "INVALID_SEED"
              /\ k = Len(primary_log)
              /\ Len(secondary_log) = k - 1

C5_Witness ==
    /\ Done
    /\ Len(inputs) = 2
    /\ Len(secondary_log) = 1
    /\ secondary_log[1].raised
    /\ result.status = "RUN_ERROR"

\* C6: when both runners match an input in agreement with the oracle and their
\* extracted substrings differ, the run ends with SUBSTR_MISMATCH if no verdict
\* mismatch was recorded on any input, and with FAILED if one was.
C6_SubstrMismatch ==
    ( /\ NoAbort
      /\ \E k \in DOMAIN secondary_log :
            /\ primary_log[k].status = oracle
            /\ secondary_log[k].status = oracle
            /\ primary_log[k].str # secondary_log[k].str )
    => result.status =
           IF \E k \in DOMAIN secondary_log : secondary_log[k].status # oracle
           THEN "FAILED" ELSE "SUBSTR_MISMATCH"

\* C7: failed_inputs of every returned HarnessResult is the list of the inputs
\* that failed in the secondary runner (verdict different from the oracle, or
\* match raised): empty on SUCCESS, and on RUN_ERROR still holding the
\* mismatches recorded on earlier inputs.
C7_FailedInputsAreTargetFailures ==
    Done =>
        result.failed_inputs =
            LogInputs(SelectSeq(secondary_log, TargetFailed))

(***************************************************************************)
(* Properties of generate_many(), checked under SpecGen.                   *)
(***************************************************************************)
\* The oracle check of the generator's class on one string.
PassesOracle(string) ==
    IF kind = "valid"
    THEN check_if_string_is_valid(regex, string)
    ELSE ~check_if_string_is_valid(regex, string)

\* C8: every string collected and returned by generate_many of a valid
\* generator passes check_if_string_is_valid for the generator's regex, and
\* every string of an invalid generator fails it, whatever generate_unsafe
\* (the strategy) hands back.
C8_ReturnedStringsPassOracle ==
    /\ \A k \in DOMAIN valid_inputs : PassesOracle(valid_inputs[k])
    /\ \A k \in DOMAIN returned : PassesOracle(returned[k])

C8_Witness ==
    /\ g_pc = "returned"
    /\ kind = "invalid"
    /\ Len(returned) = 2
    /\ \E c \in Candidates : string_counts[c] > 0 /\ ~PassesOracle(c)

\* C9: generate_many(n, max_input_size) with n >= 1 and max_input_size >= 1
\* returns at most n strings, each of length at most max_input_size.
C9_AtMostNWithinMaxSize ==
    (g_pc = "returned" /\ n >= 1 /\ max_input_size >= 1) =>
        /\ Len(returned) <= n
        /\ \A k \in DOMAIN returned : Len(returned[k]) <= max_input_size

C9_Witness ==
    /\ g_pc = "returned"
    /\ kind = "valid"
    /\ max_input_size = 2
    /\ Len(returned) = n
    /\ string_counts[<<"a", "b", "b">>] > 0
    /\ PassesOracle(<<"a", "b", "b">>)

\* C10: generate_many raises ValueError exactly when it has collected no string
\* at loop exit; with k collected strings, 1 <= k < n, it returns those k
\* strings without raising.
C10_ValueErrorIffEmpty ==
    g_pc \in {"returned", "ValueError"} =>
        /\ g_pc = "ValueError" <=> Len(valid_inputs) = 0
        /\ g_pc = "returned" => returned = valid_inputs

C10_Witness ==
    /\ g_pc = "returned"
    /\ Len(returned) >= 1
    /\ Len(returned) < n

(***************************************************************************)
(* Properties of harness_runtime(), checked under SpecRuntime.             *)
(***************************************************************************)
\* The events of the trace that belong to oracle spec s.
EventsOf(s) == SelectSeq(r_trace, LAMBDA e : e.spec = s)

\* C11: when generate_many produces no output for an oracle spec (ValueError),
\* the harness is not run for that spec and no SUCCESS result is recorded
\* for it.
C11_EmptyGenerationIsFailure ==
    \A i \in DOMAIN r_trace :
        (r_trace[i].ev = "generate_inputs" /\ r_trace[i].out = "ValueError") =>
            /\ \A j \in DOMAIN r_trace :
                   r_trace[j].spec = r_trace[i].spec => r_trace[j].ev # "harness"
            /\ r_trace[i].spec \in DOMAIN all_results =>
                   all_results[r_trace[i].spec].status # "SUCCESS"

\* C12: once an oracle run has ended with COMPILE_ERROR, harness_runtime has
\* returned, that result is the last one of the list and nothing was done
\* after the harness call that produced it.
C12_CompileErrorIsLast ==
    \A k \in DOMAIN all_results :
        all_results[k].status = "COMPILE_ERROR" =>
            /\ k = Len(all_results)
            /\ r_pc = "returned"
            /\ r_trace[Len(r_trace)] =
                   [spec |-> k, ev |-> "harness", out |-> "COMPILE_ERROR"]

C12_Witness ==
    /\ r_pc = "returned"
    /\ Len(oracle_params) = 2
    /\ Len(all_results) = 1
    /\ all_results[1].status = "COMPILE_ERROR"

\* C13: a timeout of input generation for an oracle spec records exactly one
\* result with status INPUT_GEN_TIMEOUT for it and the harness is not run for
\* it; a timeout of the harness records exactly one result with status
\* HARNESS_TIMEOUT together with the generated inputs; in both cases the
\* loop goes on to the next oracle spec.
C13_TimeoutsAreRecorded ==
    \A i \in DOMAIN r_trace :
        r_trace[i].out = "TimeoutError" =>
            LET s == r_trace[i].spec IN
            /\ s \in DOMAIN all_results
            /\ all_results[s].status =
                   IF r_trace[i].ev = "generate_inputs"
                   THEN "INPUT_GEN_TIMEOUT" ELSE "HARNESS_TIMEOUT"
            /\ r_trace[i].ev = "generate_inputs" =>
                   /\ Len(EventsOf(s)) = 1
                   /\ all_regex_inputs[s] = <<>>
            /\ r_trace[i].ev = "harness" => all_regex_inputs[s] = regex_inputs
            /\ r_exc \in {"none", "TimeoutError"}
            /\ r_pc \in {"for", "generate_inputs", "run_harness", "harness",
                         "returned", "timeout"}

\* The order of two consecutive events of harness_runtime.
Follows(a, b) ==
    \/ /\ a.ev = "generate_inputs"
       /\ a.out \in {"list", "ValueError"}
       /\ b = [spec |-> a.spec, ev |-> "harness", out |-> "start"]
    \/ /\ a.ev = "harness"
       /\ a.out = "start"
       /\ b.spec = a.spec
       /\ b.ev = "harness"
       /\ b.out # "start"
    \/ /\ \/ a.ev = "generate_inputs" /\ a.out = "TimeoutError"
          \/ a.ev = "harness" /\ a.out # "start"
       /\ b.spec = a.spec + 1
       /\ b.ev = "generate_inputs"

\* C19: oracle specs are processed one after another in the order given:
\* generation, then the harness, for spec i end before anything starts for
\* spec i+1; within a harness run the inputs are matched in list order, the
\* primary runner before the secondary runner on each input.
C19_SequentialInOrder ==
    /\ r_trace # <<>> => (r_trace[1].spec = 1 /\ r_trace[1].ev = "generate_inputs")
    /\ \A i \in 1..(Len(r_trace) - 1) : Follows(r_trace[i], r_trace[i + 1])
    /\ \A i \in DOMAIN r_trace : r_trace[i].spec \in DOMAIN oracle_params
    /\ LogInputs(primary_log) = SubSeq(inputs, 1, Len(primary_log))
    /\ LogInputs(secondary_log) = SubSeq(inputs, 1, Len(secondary_log))
    /\ Len(secondary_log) <= Len(primary_log)
    /\ Len(primary_log) <= Len(secondary_log) + 1

C19_Witness ==
    /\ r_pc = "returned"
    /\ Len(oracle_params) = 2
    /\ Len(r_trace) = 6
    /\ Len(inputs) = 2
    /\ Len(secondary_log) = 2

RuntimeOutcome ==
    [end |-> r_pc, results |-> [k \in DOMAIN all_results |-> all_results[k].status]]

\* Every way harness_runtime ends is one of TaskOutcomes.
RuntimeOutcomeIsTaskOutcome ==
    r_pc \in {"returned", "timeout", "raised"} => RuntimeOutcome \in TaskOutcomes

(***************************************************************************)
(* Properties of fuzz_with_regexes(), checked under SpecFuzz.              *)
(***************************************************************************)
\* The positions of results that hold an entry of pattern p.
EntriesOf(p) == {i \in DOMAIN results : results[i].regex = p}

\* C14: when the whole-pattern timeout expires for a pattern, the list handed
\* to Stats holds a result of that pattern with status REGEX_TIMEOUT.
C14_RegexTimeoutRecorded ==
    f_pc = "stats" =>
        \A p \in 1..num_regexes :
            f_outcome[p].end = "timeout" =>
                \E i \in EntriesOf(p) :
                    \E k \in DOMAIN results[i].results :
                        results[i].results[k] = "REGEX_TIMEOUT"

\* C15: when fuzz_with_regexes is over, results holds exactly one entry per
\* pattern, on the serial path and on the parallel path, and the entry of a
\* pattern that timed out or raised is the placeholder (pattern, [], []).
C15_OneEntryPerPattern ==
    f_pc = "stats" =>
        /\ Len(results) = num_regexes
        /\ \A p \in 1..num_regexes :
              /\ Cardinality(EntriesOf(p)) = 1
              /\ f_outcome[p].end \in {"timeout", "raised"} =>
                     \A i \in EntriesOf(p) : results[i] = Placeholder(p)

\* C16: every HarnessResult that harness_runtime produced for a pattern is in
\* the list handed to Stats, at its place in the entry of that pattern.
C16_ProducedResultsReachStats ==
    f_pc = "stats" =>
        \A p \in 1..num_regexes :
            \A k \in DOMAIN f_outcome[p].results :
                \E i \in EntriesOf(p) :
                    /\ k \in DOMAIN results[i].results
                    /\ results[i].results[k] = f_outcome[p].results[k]

\* C17: on the parallel path the supervisor never waits without bound: as
\* long as fuzz_with_regexes has not reached Stats, some step of it can be
\* taken, even when a worker never returns.
C17_SupervisorNeverBlocked ==
    f_pc = "stats" \/ ENABLED NextFuzz

(***************************************************************************)
(* Properties of timeout_decorator, checked under SpecTimeout.             *)
(***************************************************************************)
\* The processes started by the function between thread.start() and the
\* moment thread.join(seconds) gave up.
CreatedInWindow(c) ==
    /\ procs[c].state # "none"
    /\ procs[c].ctime >= t_start
    /\ procs[c].ctime <= t_join

C29_CompiledRunnerCleanedOnce ==
    (Done /\ secondary_compile = "ok") =>
        /\ runner_events \in {<<"clean">>, <<"save", "clean">>}
        /\ (result.status \in status_to_save) = (runner_events = <<"save", "clean">>)

\* C25: for a pattern whose automaton accepts the empty string, the empty
\* string is a possible output of a valid generator: whenever _generate is
\* about to draw a candidate, the empty string has not been drawn before and
\* the pattern accepts it, _generate can hand the empty string to
\* generate_many.
C25_EmptyStringIsPossible ==
    (/\ g_pc = "generate"
     /\ kind = "valid"
     /\ attempts < MaxAttempts
     /\ string_counts[<<>>] = 0
     /\ check_if_string_is_valid(regex, <<>>))
        => ENABLED (GenerateValid /\ generated' = Returned(<<>>) /\ g_pc' = "handle")

\* r is p with some items left out: the items of r are items of p, in the
\* order of p.
IsSubSeq(r, p) ==
    \E f \in [1..Len(r) -> 1..Len(p)] :
        /\ \A i \in 1..Len(r) : p[f[i]] = r[i]
        /\ \A i, j \in 1..Len(r) : i < j => f[i] < f[j]

\* C22: the list generate_many returns for a PredefinedGenerator (valid or
\* invalid) holds only strings taken from the supplied list, in list order.
C22_PredefinedInListOrder ==
    (g_pc = "returned" /\ gen_cls = "predefined")
        => IsSubSeq(returned, predefined_inputs)

\* PythonReRunner.match(input): re.match anchors the pattern at offset 0 and
\* takes a prefix of the input; the verdict is whether there is a match.
PythonReMatch(rx, input) ==
    \E j \in 0..Len(input) :
        /\ SubSeq(input, 1, j) \in rx.words
        /\ rx.end => j = Len(input)

\* C28: every string generate_many returns gets from the reference runner of
\* the harness the verdict of the generator's oracle (a match for a valid
\* generator, no match for an invalid one), so that the harness does not end
\* in INVALID_SEED on it.
C28_ReferenceRunnerAgrees ==
    (g_pc = "returned")
        => \A k \in DOMAIN returned :
               PythonReMatch(regex, returned[k]) = (kind = "valid")

\* C21: clean() is idempotent for every Runner: a clean() that directly
\* follows a clean() that returned also returns, and leaves the disk as the
\* first one left it.
C21_CleanIdempotent ==
    \A i \in 1..(Len(c_calls) - 1) :
        (/\ c_calls[i].op = "clean"
         /\ c_calls[i].exc = "none"
         /\ c_calls[i + 1].op = "clean")
            => /\ c_calls[i + 1].exc = "none"
               /\ c_calls[i + 1].fs = c_calls[i].fs

\* C23: a string dfa_string_matching returns is accepted by the automaton of
\* the pattern, on the early return of the empty string and at the step
\* ceiling as well; otherwise the function raises.
C23_ReturnedStringIsAccepted ==
    (w_pc = "returned") => accepts_input(nfa, w_result)

\* C23 witness: a walk that used every step up to the ceiling returns a
\* string the automaton accepts.
C23_Witness ==
    /\ w_pc = "returned"
    /\ steps = MaxLength
    /\ accepts_input(nfa, w_result)

\* C27: generate_unsafe of an invalid generator returns a string for every
\* pattern: it never raises and never returns None.
C27_GenerateUnsafeReturnsString ==
    w_pc \notin {"None", "IndexError"}

\* C26: the DFA generate_random_dfa returns has exactly one final state when
\* single_final_state is set, and at least one when it is not.
C26_RandomDfaFinalStates ==
    (d_pc = "returned") =>
        IF single_final_state
        THEN Cardinality(d_out.final_states) = 1
        ELSE Cardinality(d_out.final_states) >= 1

\* C26 witness: with single_final_state set, a minimized DFA of more than
\* one state is returned, and it has one final state.
C26_Witness ==
    /\ d_pc = "returned"
    /\ single_final_state
    /\ Cardinality(d_out.final_states) = 1
    /\ Cardinality(d_out.states) > 1

C30_NoActionAfterTimeout ==
    [][abandoned => UNCHANGED <<primary_log, secondary_log, runner_events, saved>>]_vars

(***************************************************************************)
(* Claims C31..C40.                                                        *)
(***************************************************************************)
\* C31: generate_many(n, max_input_size) calls the single-string step
\* self._generate() at most n + max_attempts times, whatever the outcomes of
\* the calls are.
C31_GenerateCallsBounded == gm_calls <= n + MaxAttempts

\* The current _generate call has ended with MaxConsecutiveFailuresExceeded.
RaisedConsecutiveFailures ==
    g_pc = "handle" /\ generated.exc = "MaxConsecutiveFailuresExceeded"

\* C32 (as stated): in _generate, valid or invalid, once the number of
\* consecutive candidates that failed the oracle check reaches
\* max_consecutive_failures, the loop ends with MaxConsecutiveFailuresExceeded.
C32_Original ==
    (g_pc \in {"generate", "handle"} /\ oracle_failures >= max_consecutive_failures)
        => RaisedConsecutiveFailures

\* C32 (amended): an invalid generator's _generate ends with
\* MaxConsecutiveFailuresExceeded once the number of candidates that failed
\* the oracle check reaches max_consecutive_failures, and not before; a valid
\* generator's _generate retries a candidate that failed the check without
\* counting it, and ends with that error once the number of consecutive calls
\* of generate_unsafe that returned no string reaches the maximum, and not
\* before.
C32_ConsecutiveFailures ==
    LET counted == IF kind = "invalid" THEN oracle_failures ELSE consecutive_failures
    IN  /\ (g_pc \in {"generate", "handle"} /\ counted >= max_consecutive_failures)
            => RaisedConsecutiveFailures
        /\ RaisedConsecutiveFailures => counted = max_consecutive_failures

\* An invalid generator gave up after max_consecutive_failures candidates that
\* matched the pattern.
C32_Witness ==
    /\ kind = "invalid"
    /\ RaisedConsecutiveFailures
    /\ oracle_failures = max_consecutive_failures


\* The elements of a sequence are pairwise distinct.
PairwiseDistinct(s) == \A i, j \in 1..Len(s) : s[i] = s[j] => i = j

\* C33: over all generate_many calls on one generator instance, the strings
\* returned are pairwise distinct.
C33_ReturnedStringsDistinct == PairwiseDistinct(all_returned)

\* A second call has returned strings after a first one did, and a string
\* returned earlier was generated again on the way.
C33_Witness ==
    /\ g_pc = "returned"
    /\ Len(all_returned) > Len(returned)
    /\ \E i \in 1..Len(all_returned) : string_counts[all_returned[i]] > 1

\* The states of the automaton under walk that can reach a final state.
CanReachFinal == ReachableToFinal(nfa, nfa.final_states)

\* What C34 says of a state of the walk: the current state set can reach a
\* final state; with no possible move the string so far is accepted; an
\* attempt that ended with a rejected string ran into the step ceiling.
DirectMatchKeepsAcceptance ==
    /\ w_pc \in {"walk", "check"} => current_states \cap CanReachFinal # {}
    /\ (w_pc \in {"walk", "check"} /\ PossibleMoves = {})
          => accepts_input(nfa, w_result)
    /\ (w_pc = "check" /\ ~accepts_input(nfa, w_result)) => steps >= MaxLength

\* C34 (as stated): in direct-match mode of dfa_string_matching every state
\* set the walk reaches can still reach an accepting state, a walk without a
\* possible move has built an accepted string, and an attempt ends with a
\* rejected string only at the step ceiling.
C34_Original == DirectMatchKeepsAcceptance

\* C34 (amended): the same, for a pattern whose automaton has a final state
\* that the initial state can reach (a pattern that matches some string).
C34_DirectMatchKeepsAcceptance == (1 \in CanReachFinal) => DirectMatchKeepsAcceptance

\* The walk has no possible move after at least one step and before the step
\* ceiling, and the string is accepted.
C34_Witness ==
    /\ w_pc = "check"
    /\ 1 \in CanReachFinal
    /\ PossibleMoves = {}
    /\ w_result # <<>>
    /\ steps < MaxLength
    /\ accepts_input(nfa, w_result)

\* C35: the transition table generate_random_dfa hands to minimization is
\* total, has a self-loop, has a state whose symbols lead to two different
\* destinations and, when single_final_state is requested, has a direct
\* transition and an indirect path from the initial state to the final state.
C35_ForcedInvariantsHold ==
    d_pc = "minify" =>
        /\ \A s \in dfa.states, sym \in Symbols :
               Cardinality({x \in dfa.transitions : x[1] = s /\ x[2] = sym}) = 1
        /\ \E x \in dfa.transitions : x[1] = x[3]
        /\ \E s \in dfa.states :
               Cardinality({x[3] : x \in {y \in dfa.transitions : y[1] = s}}) >= 2
        /\ single_final_state =>
               \A f \in dfa.final_states :
                   /\ \E sym \in Symbols : DfaDelta(dfa, 1, sym) = f
                   /\ \E sym \in Symbols, sym2 \in Symbols :
                          /\ DfaDelta(dfa, 1, sym) # f
                          /\ DfaDelta(dfa, DfaDelta(dfa, 1, sym), sym2) = f

\* The same failure on a table with two states, where every repair has room:
\* the table handed to minimization has no self-loop.
C35_TwoStatesKeepSelfLoop ==
    (d_pc = "minify" /\ Cardinality(dfa.states) = 2)
        => \E x \in dfa.transitions : x[1] = x[3]

\* C36: the rewriting of transform_dfa_to_single_final_state adds a fresh
\* final state without outgoing transitions and redirects to it every
\* transition whose destination was an original final state; the original
\* final states are no longer final, and a transition that did not target an
\* original final state is left as it was.
C36_NewDummyRedirectsIncoming ==
    (/\ d_pc = "returned"
     /\ strategy = "single_final_state"
     /\ Cardinality(dfa.final_states) > 1)
        => \A sym0 \in Symbols :
               LET rewritten == transform_dfa(dfa, sym0)
                   new_final == MaxState(dfa) + 1
               IN  d_out = minify(rewritten) =>
                       /\ new_final \notin dfa.states
                       /\ rewritten.final_states = {new_final}
                       /\ \A x \in rewritten.transitions : x[1] # new_final
                       /\ \A x \in dfa.transitions :
                              IF x[3] \in dfa.final_states
                              THEN <<x[1], x[2], new_final>> \in rewritten.transitions
                              ELSE x \in rewritten.transitions

\* C37: in a completely-invalid walk of NFAInvalidGenerator every emitted
\* symbol is absent from every transition of the automaton.
C37_EmittedSymbolsLabelNoEdge ==
    w_pc \in {"invalid_walk", "end", "returned", "None", "IndexError"} =>
        \A i \in 1..Len(w_result) :
            \A x \in nfa.transitions : x[2] # w_result[i]

\* The walk returned a string of two symbols over an automaton that has a
\* transition on some other symbol.
C37_Witness ==
    /\ w_pc = "returned"
    /\ Len(w_result) >= 2
    /\ \E x \in nfa.transitions : x[2] \in Symbols

\* C38: generate_unsafe of NFAInvalidGenerator ends within max_cycle loop
\* iterations with a string of at most max_cycle symbols or with None, and
\* never with an exception from a lookup or from a choice in an empty list.
C38_WalkEndsWithoutException ==
    w_pc \in {"invalid_walk", "end", "returned", "None", "IndexError"} =>
        /\ w_pc # "IndexError"
        /\ steps <= MaxCycle
        /\ Len(w_result) <= MaxCycle

\* C39: for a repetition with bounds min_count <= max_count the rule built
\* by handle_max_repeat has at least one expansion, every expansion repeats
\* the sub-rule k times with min_count <= k <= max_count, and the clamp keeps
\* the number of expansions small.
C39_RepeatRuleHasExpansions ==
    x_pc = "repeat_returned" =>
        LET expansions == grammar[<<"MREP", 0>>]
        IN  /\ Len(expansions) >= 1
            /\ Len(expansions) <= RepeatClamp + 2
            /\ \A i \in 1..Len(expansions) :
                   /\ \A j \in 1..Len(expansions[i]) : expansions[i][j] = <<"REP", 0>>
                   /\ min_count <= Len(expansions[i])
                   /\ Len(expansions[i]) <= max_count

\* The rule names among the parts of the expansions of a rule.
RuleParts(name) ==
    UNION {{grammar[name][i][j] : j \in 1..Len(grammar[name][i])} :
              i \in 1..Len(grammar[name])} \cap DOMAIN grammar

\* The rules reached from the rules of a set in at most k derivation steps.
RECURSIVE RulesWithin(_, _)
RulesWithin(rules, k) ==
    IF k = 0
    THEN rules
    ELSE RulesWithin(rules \cup UNION {RuleParts(name) : name \in rules}, k - 1)

RefersToItself(name) ==
    name \in RulesWithin(RuleParts(name), Cardinality(DOMAIN grammar))

\* C40: in regex_to_grammar no rule name is handed out twice by
\* new_rule_name, also when it was allocated before its rule was stored, so
\* no rule is assigned a second time and no rule refers to itself, directly
\* or through the rules of its expansions.
C40_RuleNamesAreUnique ==
    x_pc = "returned" =>
        /\ PairwiseDistinct(handed_out)
        /\ overwritten = {}
        /\ \A name \in DOMAIN grammar : ~RefersToItself(name)

\* The two halves of C40 taken apart: the names, and the rules.
C40_NamesHandedOutOnce == x_pc = "returned" => PairwiseDistinct(handed_out)

C40_NoRuleRefersToItself ==
    x_pc = "returned" => \A name \in DOMAIN grammar : ~RefersToItself(name)

====
